---- MODULE Spec2Model ----
(***************************************************************************)
(* Policy validator (src/policy_validator/main.py, PolicyValidatorApp).    *)
(*                                                                         *)
(* The state is the application object's fields: the active standard, the  *)
(* section checkboxes, the list of loaded file records, the enabled flag   *)
(* of the validate button and the lines written to the status area, and    *)
(* the dict of validation standards the constructor fills.                 *)
(*                                                                         *)
(* File watcher (src/policy_validator/utils/file_watcher.py,               *)
(* PolicyFileHandler and FileWatcher).  The state is the handler's         *)
(* configuration and its table of last-seen times, the wall clock, the     *)
(* position of each thread that is inside a handler method, for each path  *)
(* the event the user callback was last called for, what was printed, and  *)
(* the watcher's started flag and observer.                                *)
(* Python strings that the code inspects character by character (file      *)
(* contents, section keywords, MIME types) are sequences of one-character  *)
(* strings; strings that are only built and stored (issue and status       *)
(* messages, names) are TLA+ strings.                                      *)
(***************************************************************************)
EXTENDS Integers, Sequences, FiniteSets, TLC

VARIABLES validation_standards, current_standard, section_checkboxes,
          loaded_files, validate_enabled, status_tail

\* the fields of PolicyValidatorApp
app_vars == <<validation_standards, current_standard, section_checkboxes,
              loaded_files, validate_enabled, status_tail>>

VARIABLES config, _last_modified, clock, threads, last_callback, printed,
          _started, observer

\* the fields of PolicyFileHandler and FileWatcher and their environment
watcher_vars == <<config, _last_modified, clock, threads, last_callback, printed,
                  _started, observer>>

VARIABLES document_content, validation_results, validation_options, returned

\* the fields of a BaseValidator and the value its last
\* _validate_basic_requirements call returned
validator_vars == <<document_content, validation_results, validation_options,
                    returned>>

(***************************************************************************)
(* Bounds of the exploration.                                              *)
(***************************************************************************)
\* process_files and validate_policies start only while loaded_files holds
\* fewer records and issues, counted together, than this
MaxLoad == 4

\* the clock stops at this time
MaxTime == 2

\* a validator records a result only while it holds fewer results than this
MaxResults == 2

(***************************************************************************)
(* Characters and strings.                                                 *)
(***************************************************************************)
\* the characters of the strings the code searches in or for
Chars(s) ==
  CASE s = "access control" -> <<"a","c","c","e","s","s"," ","c","o","n","t","r","o","l">>
    [] s = "audit and accountability" -> <<"a","u","d","i","t"," ","a","n","d"," ","a","c","c","o","u","n","t","a","b","i","l","i","t","y">>
    [] s = "security assessment" -> <<"s","e","c","u","r","i","t","y"," ","a","s","s","e","s","s","m","e","n","t">>
    [] s = "configuration management" -> <<"c","o","n","f","i","g","u","r","a","t","i","o","n"," ","m","a","n","a","g","e","m","e","n","t">>
    [] s = "contingency planning" -> <<"c","o","n","t","i","n","g","e","n","c","y"," ","p","l","a","n","n","i","n","g">>
    [] s = "identification and authentication" -> <<"i","d","e","n","t","i","f","i","c","a","t","i","o","n"," ","a","n","d"," ","a","u","t","h","e","n","t","i","c","a","t","i","o","n">>
    [] s = "incident response" -> <<"i","n","c","i","d","e","n","t"," ","r","e","s","p","o","n","s","e">>
    [] s = "maintenance" -> <<"m","a","i","n","t","e","n","a","n","c","e">>
    [] s = "media protection" -> <<"m","e","d","i","a"," ","p","r","o","t","e","c","t","i","o","n">>
    [] s = "physical protection" -> <<"p","h","y","s","i","c","a","l"," ","p","r","o","t","e","c","t","i","o","n">>
    [] s = "risk assessment" -> <<"r","i","s","k"," ","a","s","s","e","s","s","m","e","n","t">>
    [] s = "system and communications protection" -> <<"s","y","s","t","e","m"," ","a","n","d"," ","c","o","m","m","u","n","i","c","a","t","i","o","n","s"," ","p","r","o","t","e","c","t","i","o","n">>
    [] s = "information security policies" -> <<"i","n","f","o","r","m","a","t","i","o","n"," ","s","e","c","u","r","i","t","y"," ","p","o","l","i","c","i","e","s">>
    [] s = "organization of information security" -> <<"o","r","g","a","n","i","z","a","t","i","o","n"," ","o","f"," ","i","n","f","o","r","m","a","t","i","o","n"," ","s","e","c","u","r","i","t","y">>
    [] s = "human resource security" -> <<"h","u","m","a","n"," ","r","e","s","o","u","r","c","e"," ","s","e","c","u","r","i","t","y">>
    [] s = "asset management" -> <<"a","s","s","e","t"," ","m","a","n","a","g","e","m","e","n","t">>
    [] s = "cryptography" -> <<"c","r","y","p","t","o","g","r","a","p","h","y">>
    [] s = "physical security" -> <<"p","h","y","s","i","c","a","l"," ","s","e","c","u","r","i","t","y">>
    [] s = "operations security" -> <<"o","p","e","r","a","t","i","o","n","s"," ","s","e","c","u","r","i","t","y">>
    [] s = "communications security" -> <<"c","o","m","m","u","n","i","c","a","t","i","o","n","s"," ","s","e","c","u","r","i","t","y">>
    [] s = "incident management" -> <<"i","n","c","i","d","e","n","t"," ","m","a","n","a","g","e","m","e","n","t">>
    [] s = "security" -> <<"s","e","c","u","r","i","t","y">>
    [] s = "availability" -> <<"a","v","a","i","l","a","b","i","l","i","t","y">>
    [] s = "processing integrity" -> <<"p","r","o","c","e","s","s","i","n","g"," ","i","n","t","e","g","r","i","t","y">>
    [] s = "confidentiality" -> <<"c","o","n","f","i","d","e","n","t","i","a","l","i","t","y">>
    [] s = "privacy" -> <<"p","r","i","v","a","c","y">>
    [] s = "password" -> <<"p","a","s","s","w","o","r","d">>
    [] s = "data protection" -> <<"d","a","t","a"," ","p","r","o","t","e","c","t","i","o","n">>
    [] s = "compliance" -> <<"c","o","m","p","l","i","a","n","c","e">>
    [] s = "pdf" -> <<"p","d","f">>
    [] s = "officedocument.wordprocessingml" -> <<"o","f","f","i","c","e","d","o","c","u","m","e","n","t",".","w","o","r","d","p","r","o","c","e","s","s","i","n","g","m","l">>
    [] s = "msword" -> <<"m","s","w","o","r","d">>
    [] s = "text/plain" -> <<"t","e","x","t","/","p","l","a","i","n">>
    [] s = "application/pdf" -> <<"a","p","p","l","i","c","a","t","i","o","n","/","p","d","f">>
    [] s = "image/png" -> <<"i","m","a","g","e","/","p","n","g">>
    [] s = "application/vnd.openxmlformats-officedocument.wordprocessingml.document" -> <<"a","p","p","l","i","c","a","t","i","o","n","/","v","n","d",".","o","p","e","n","x","m","l","f","o","r","m","a","t","s","-","o","f","f","i","c","e","d","o","c","u","m","e","n","t",".","w","o","r","d","p","r","o","c","e","s","s","i","n","g","m","l",".","d","o","c","u","m","e","n","t">>
    [] s = "application/msword" -> <<"a","p","p","l","i","c","a","t","i","o","n","/","m","s","w","o","r","d">>
    [] s = "/w/a.txt" -> <<"/","w","/","a",".","t","x","t">>
    [] s = "/w/b.docx" -> <<"/","w","/","b",".","d","o","c","x">>
    [] s = "/w/readme.md" -> <<"/","w","/","r","e","a","d","m","e",".","m","d">>
    [] s = "/w/archive/old.txt" -> <<"/","w","/","a","r","c","h","i","v","e","/","o","l","d",".","t","x","t">>
    [] s = "/w/archive" -> <<"/","w","/","a","r","c","h","i","v","e">>
    [] s = "*.pdf" -> <<"*",".","p","d","f">>
    [] s = "*.docx" -> <<"*",".","d","o","c","x">>
    [] s = "*.doc" -> <<"*",".","d","o","c">>
    [] s = "*.txt" -> <<"*",".","t","x","t">>
    [] s = "*." -> <<"*",".">>

LowerLetters ==
  {"a", "b", "c", "d", "e", "f", "g", "h", "i", "j", "k", "l", "m", "n", "o", "p", "q", "r", "s", "t", "u", "v", "w", "x", "y", "z"}
UpperLetters ==
  {"A", "B", "C", "D", "E", "F", "G", "H", "I", "J", "K", "L", "M", "N", "O", "P", "Q", "R", "S", "T", "U", "V", "W", "X", "Y", "Z"}
Digits ==
  {"0", "1", "2", "3", "4", "5", "6", "7", "8", "9"}

\* str.lower() on one character
LowerChar(c) ==
  CASE c = "A" -> "a"
    [] c = "B" -> "b"
    [] c = "C" -> "c"
    [] c = "D" -> "d"
    [] c = "E" -> "e"
    [] c = "F" -> "f"
    [] c = "G" -> "g"
    [] c = "H" -> "h"
    [] c = "I" -> "i"
    [] c = "J" -> "j"
    [] c = "K" -> "k"
    [] c = "L" -> "l"
    [] c = "M" -> "m"
    [] c = "N" -> "n"
    [] c = "O" -> "o"
    [] c = "P" -> "p"
    [] c = "Q" -> "q"
    [] c = "R" -> "r"
    [] c = "S" -> "s"
    [] c = "T" -> "t"
    [] c = "U" -> "u"
    [] c = "V" -> "v"
    [] c = "W" -> "w"
    [] c = "X" -> "x"
    [] c = "Y" -> "y"
    [] c = "Z" -> "z"
    [] OTHER -> c

\* str.upper() on one character (used to write the sample documents)
UpperChar(c) ==
  CASE c = "a" -> "A"
    [] c = "b" -> "B"
    [] c = "c" -> "C"
    [] c = "d" -> "D"
    [] c = "e" -> "E"
    [] c = "f" -> "F"
    [] c = "g" -> "G"
    [] c = "h" -> "H"
    [] c = "i" -> "I"
    [] c = "j" -> "J"
    [] c = "k" -> "K"
    [] c = "l" -> "L"
    [] c = "m" -> "M"
    [] c = "n" -> "N"
    [] c = "o" -> "O"
    [] c = "p" -> "P"
    [] c = "q" -> "Q"
    [] c = "r" -> "R"
    [] c = "s" -> "S"
    [] c = "t" -> "T"
    [] c = "u" -> "U"
    [] c = "v" -> "V"
    [] c = "w" -> "W"
    [] c = "x" -> "X"
    [] c = "y" -> "Y"
    [] c = "z" -> "Z"
    [] OTHER -> c

\* str.lower()
lower(s) == [i \in 1..Len(s) |-> LowerChar(s[i])]

\* Python's `k in t` on strings
IsSubstring(k, t) ==
  \E i \in 1..(Len(t) - Len(k) + 1) : \A j \in 1..Len(k) : t[i + j - 1] = k[j]

\* the character classes \s, \w and \d of the re module
IsSpace(c) == c \in {" ", "\t", "\n", "\r", "\f"}
IsWord(c) == c \in LowerLetters \cup UpperLetters \cup Digits \cup {"_"}
IsDigit(c) == c \in Digits

\* position s is where (^|\n) has just matched
AtLineStart(t, s) == s = 1 \/ (s > 1 /\ t[s - 1] = "\n")

\* re.search(r'(^|\n)#+\s+\w+', t)
HasMarkdownHeader(t) ==
  \E s \in 1..Len(t) :
    /\ AtLineStart(t, s)
    /\ t[s] = "#"
    /\ \E a \in 1..(Len(t) - s) :
         /\ \A i \in s..(s + a - 1) : t[i] = "#"
         /\ IsSpace(t[s + a])
         /\ \E b \in 1..(Len(t) - s - a) :
              /\ \A i \in (s + a)..(s + a + b - 1) : IsSpace(t[i])
              /\ IsWord(t[s + a + b])

\* re.search(r'(^|\n)\d+\.\s+\w+', t)
HasNumberedList(t) ==
  \E s \in 1..Len(t) :
    /\ AtLineStart(t, s)
    /\ IsDigit(t[s])
    /\ \E a \in 1..(Len(t) - s) :
         /\ \A i \in s..(s + a - 1) : IsDigit(t[i])
         /\ t[s + a] = "."
         /\ \E b \in 1..(Len(t) - s - a - 1) :
              /\ \A i \in (s + a + 1)..(s + a + b) : IsSpace(t[i])
              /\ IsWord(t[s + a + b + 1])

NL == <<"\n">>

\* n filler characters
Fill(n) == [i \in 1..n |-> "x"]

\* the phrases of `names`, each followed by ". "
RECURSIVE Sentences(_)
Sentences(names) ==
  IF names = <<>> THEN <<>>
  ELSE Chars(Head(names)) \o <<".", " ">> \o Sentences(Tail(names))

\* the phrases of `names` in capitals, each followed by ". "
RECURSIVE Shouted(_)
Shouted(names) ==
  IF names = <<>> THEN <<>>
  ELSE [i \in 1..Len(Chars(Head(names))) |-> UpperChar(Chars(Head(names))[i])]
       \o <<".", " ">> \o Shouted(Tail(names))

\* text `t` padded with filler up to n characters
Pad(t, n) == t \o Fill(n - Len(t))

(***************************************************************************)
(* The standard registry (PolicyValidatorApp.__init__).                    *)
(***************************************************************************)
NistSections ==
  << "access control", "audit and accountability", "security assessment",
     "configuration management", "contingency planning",
     "identification and authentication", "incident response", "maintenance",
     "media protection", "physical protection", "risk assessment",
     "system and communications protection" >>

IsoSections ==
  << "information security policies", "organization of information security",
     "human resource security", "asset management", "access control",
     "cryptography", "physical security", "operations security",
     "communications security", "incident management" >>

Soc2Sections ==
  << "security", "availability", "processing integrity", "confidentiality",
     "privacy" >>

CustomSections ==
  << "password", "data protection", "access control", "incident response",
     "compliance" >>

\* the dict the constructor assigns to self.validation_standards
StandardsAtStartup ==
  ( "NIST SP 800-53" :> [sections |-> NistSections, min_length |-> 1000,
                         required_structure |-> TRUE] )
  @@ ( "ISO 27001" :> [sections |-> IsoSections, min_length |-> 800,
                       required_structure |-> TRUE] )
  @@ ( "SOC 2" :> [sections |-> Soc2Sections, min_length |-> 500,
                   required_structure |-> FALSE] )
  @@ ( "Custom" :> [sections |-> CustomSections, min_length |-> 50,
                    required_structure |-> FALSE] )

StandardNames == DOMAIN validation_standards

\* the names on_standard_changed is called with: the registered ones and one
\* that is not registered
StandardChoices == StandardNames \cup {"PCI DSS"}

(***************************************************************************)
(* The files on disk the user can drop.  Each entry gives what the calls   *)
(* of process_files and _validate_text_policy return for that path.        *)
(***************************************************************************)
NistAllButOne ==
  << "audit and accountability", "security assessment",
     "configuration management", "contingency planning",
     "identification and authentication", "incident response", "maintenance",
     "media protection", "physical protection", "risk assessment",
     "system and communications protection" >>

\* the Custom keywords except "access control", two of them in capitals, 90
\* characters
CustomText ==
  Pad(Shouted(<<"password", "compliance">>)
      \o Sentences(<<"data protection", "incident response">>), 90)

\* all five Custom keywords, 100 characters
NotesText == Pad(Sentences(CustomSections), 100)

\* the NIST keywords except "access control", 1200 characters; "#x" at the
\* start of a line and "7." inside a line are neither a header nor a
\* numbered item
NistText ==
  Pad(Sentences(NistAllButOne) \o <<"7", ".", " ", "a">> \o NL \o <<"#", "x">>,
      1200)

\* a small PDF whose bytes decode as text: a numbered item, a header and the
\* Custom keywords in capitals, 900 characters
TinyPdfText ==
  Pad(<<"%", "P", "D", "F", "-", "1", ".", "4">> \o NL
      \o <<"1", "2", ".", " ", "\t">> \o Shouted(CustomSections) \o NL
      \o <<"#", "#", " ">> \o Sentences(<<"cryptography">>), 900)

Ok(text) == [ok |-> TRUE, text |-> text, error |-> ""]
Err(msg) == [ok |-> FALSE, text |-> <<>>, error |-> msg]

DecodeError ==
  "'utf-8' codec can't decode byte 0xe9 in position 3: invalid continuation byte"

Disk ==
  ( "/p/custom.text" :>
      [name |-> "custom.text", stat |-> TRUE, size |-> 90, magic |-> TRUE,
       mime |-> "text/plain", extension |-> ".text", read |-> Ok(CustomText)] )
  @@ ( "/p/notes.md" :>
      [name |-> "notes.md", stat |-> TRUE, size |-> 100, magic |-> TRUE,
       mime |-> "text/plain", extension |-> ".md", read |-> Ok(NotesText)] )
  @@ ( "/p/nist.txt" :>
      [name |-> "nist.txt", stat |-> TRUE, size |-> 1200, magic |-> TRUE,
       mime |-> "text/plain", extension |-> ".txt", read |-> Ok(NistText)] )
  @@ ( "/p/tiny.pdf" :>
      [name |-> "tiny.pdf", stat |-> TRUE, size |-> 900, magic |-> TRUE,
       mime |-> "application/pdf", extension |-> ".pdf",
       read |-> Ok(TinyPdfText)] )
  @@ ( "/p/legacy.doc" :>
      [name |-> "legacy.doc", stat |-> TRUE, size |-> 20000, magic |-> TRUE,
       mime |-> "application/msword", extension |-> ".doc",
       read |-> Err(DecodeError)] )
  @@ ( "/p/report.docx" :>
      [name |-> "report.docx", stat |-> TRUE, size |-> 700, magic |-> TRUE,
       mime |-> "application/vnd.openxmlformats-officedocument.wordprocessingml.document",
       extension |-> ".docx", read |-> Err(DecodeError)] )
  @@ ( "/p/empty.txt" :>
      [name |-> "empty.txt", stat |-> TRUE, size |-> 0, magic |-> TRUE,
       mime |-> "text/plain", extension |-> ".txt", read |-> Ok(<<>>)] )
  @@ ( "/p/logo.png" :>
      [name |-> "logo.png", stat |-> TRUE, size |-> 300, magic |-> TRUE,
       mime |-> "image/png", extension |-> ".png",
       read |-> Err(DecodeError)] )
  @@ ( "/p/gone.txt" :>
      [name |-> "gone.txt", stat |-> FALSE, size |-> 0, magic |-> FALSE,
       mime |-> "text/plain", extension |-> ".txt",
       read |-> Err("[Errno 2] No such file or directory: '/p/gone.txt'")] )
  @@ ( "/p/fifo.txt" :>
      [name |-> "fifo.txt", stat |-> TRUE, size |-> 10, magic |-> FALSE,
       mime |-> "text/plain", extension |-> ".txt",
       read |-> Err("[Errno 13] Permission denied: '/p/fifo.txt'")] )

Paths == DOMAIN Disk

\* os.path.basename
basename(path) == Disk[path].name

\* every section keyword of the registry
AllSections ==
  UNION {{StandardsAtStartup[n].sections[i] :
            i \in 1..Len(StandardsAtStartup[n].sections)} : n \in DOMAIN StandardsAtStartup}

\* Content without the call of lower()
ContentCasePreserved == [path \in Paths |-> Disk[path].read.text]

\* f.read().lower() for each path (the files do not change while the
\* application runs)
Content == [path \in Paths |-> lower(Disk[path].read.text)]

\* `section in content` for each path and section keyword
SectionIn ==
  [path \in Paths |->
     [section \in AllSections |-> IsSubstring(Chars(section), Content[path])]]

\* whether the content of each path has a markdown header or a numbered item
Structured ==
  [path \in Paths |->
     HasMarkdownHeader(Content[path]) \/ HasNumberedList(Content[path])]

(***************************************************************************)
(* Status area.  status_tail holds the lines the most recent handler wrote *)
(* to status_area, oldest first; the program never reads the status area,  *)
(* so the lines of earlier handlers are not kept.                          *)
(***************************************************************************)
\* the line log_status(message, error) appends
log_status(message, error) == [message |-> message, error |-> error]

(***************************************************************************)
(* Issue texts.                                                            *)
(***************************************************************************)
\* ', '.join(names)
RECURSIVE join(_)
join(names) ==
  IF names = <<>> THEN ""
  ELSE IF Len(names) = 1 THEN names[1]
  ELSE names[1] \o ", " \o join(Tail(names))

LengthIssue(n, standard_name) ==
  "Content length (" \o ToString(n) \o " chars) is below minimum requirement ("
  \o ToString(validation_standards[standard_name].min_length)
  \o " chars) for " \o standard_name

MissingIssue(missing_sections, standard_name) ==
  "Missing required sections for " \o standard_name \o ": "
  \o join(missing_sections)

StructureIssue(standard_name) ==
  standard_name \o " requires clear section headers or structured format"

ErrorIssue(e) == "Error validating file: " \o e

\* str(KeyError(key))
KeyErrorText(key) == "'" \o key \o "'"

MismatchIssue(extension, kind) ==
  "Extension " \o extension \o " doesn't match " \o kind \o " content"

(***************************************************************************)
(* process_files                                                           *)
(***************************************************************************)
\* the record process_files builds for a path, before the type is known
NewFileInfo(path) ==
  [path |-> path, type |-> "None", mime |-> Disk[path].mime,
   size |-> Disk[path].size, extension |-> Disk[path].extension,
   valid |-> TRUE, issues |-> <<>>]

\* Typed marking the record invalid when the extension does not match
TypedMismatchInvalid(file_info, type, kind, accepted) ==
  [file_info EXCEPT
     !.type = type,
     !.valid = file_info.extension \in accepted,
     !.issues = IF file_info.extension \in accepted THEN @
                ELSE Append(@, MismatchIssue(file_info.extension, kind))]

\* file_info with its type set and the extension checked against `accepted`
Typed(file_info, type, kind, accepted) ==
  [file_info EXCEPT
     !.type = type,
     !.issues = IF file_info.extension \in accepted THEN @
                ELSE Append(@, MismatchIssue(file_info.extension, kind))]

\* one iteration of the loop of process_files: st is the pair of
\* loaded_files and the lines logged so far
ProcessOne(st, path) ==
  LET name == basename(path)
      file_type == Chars(Disk[path].mime)
      info == NewFileInfo(path)
      Skip(line) == [files |-> st.files, log |-> Append(st.log, line)]
      Add(file_info, line) == [files |-> Append(st.files, file_info),
                               log |-> Append(st.log, line)]
  IN  IF ~Disk[path].stat
        THEN Skip(log_status("Error checking file size for " \o name \o ": "
                             \o Disk[path].read.error, TRUE))
      ELSE IF Disk[path].size = 0
        THEN Skip(log_status("Warning: " \o name \o " is empty", TRUE))
      ELSE IF ~Disk[path].magic
        THEN Skip(log_status("Error processing " \o name \o ": "
                             \o Disk[path].read.error, TRUE))
      ELSE IF IsSubstring(Chars("pdf"), file_type)
        THEN Add(Typed(info, "pdf", "PDF", {".pdf"}),
                 log_status("Added PDF: " \o name, FALSE))
      ELSE IF IsSubstring(Chars("officedocument.wordprocessingml"), file_type)
        THEN Add(Typed(info, "docx", "DOCX", {".docx"}),
                 log_status("Added DOCX: " \o name, FALSE))
      ELSE IF IsSubstring(Chars("msword"), file_type)
        THEN Add(Typed(info, "doc", "DOC", {".doc"}),
                 log_status("Added DOC: " \o name, FALSE))
      ELSE IF IsSubstring(Chars("text/plain"), file_type)
        THEN Add(Typed(info, "txt", "text", {".txt", ".text"}),
                 log_status("Added text file: " \o name, FALSE))
      ELSE Skip(log_status("Unsupported file type: " \o name \o " ("
                           \o Disk[path].mime \o ")", TRUE))

RECURSIVE ProcessAll(_, _)
ProcessAll(st, file_paths) ==
  IF file_paths = <<>> THEN st
  ELSE ProcessAll(ProcessOne(st, Head(file_paths)), Tail(file_paths))

\* the lists of paths a drop or the file dialog delivers
PathLists ==
  { <<"/p/custom.text">>, <<"/p/nist.txt">>, <<"/p/legacy.doc">>,
    <<"/p/empty.txt", "/p/notes.md", "/p/gone.txt">>,
    <<"/p/logo.png", "/p/fifo.txt">>,
    <<"/p/report.docx", "/p/tiny.pdf">> }

\* the number of issues the records of `files` hold
RECURSIVE IssueCount(_)
IssueCount(files) ==
  IF files = <<>> THEN 0 ELSE Len(Head(files).issues) + IssueCount(Tail(files))

\* the size of a list of records: its records and their issues
Load(files) == Len(files) + IssueCount(files)

process_files(file_paths) ==
  LET st == ProcessAll([files |-> loaded_files, log |-> <<>>], file_paths)
  IN  /\ Load(st.files) < MaxLoad
      /\ loaded_files' = st.files
      /\ status_tail' = st.log
      /\ validate_enabled' = (Len(st.files) > 0)
      /\ UNCHANGED <<validation_standards, current_standard, section_checkboxes>>
      /\ UNCHANGED <<watcher_vars, validator_vars>>

(***************************************************************************)
(* Validation                                                              *)
(***************************************************************************)
\* MissingSections with each missing section put in front of the list
\* instead of at its end
MissingSectionsPrepended(path) ==
  LET lacking == SelectSeq(section_checkboxes,
                   LAMBDA cb : cb.checked /\ ~SectionIn[path][cb.section])
  IN  [i \in 1..Len(lacking) |-> lacking[Len(lacking) + 1 - i].section]

\* MissingSections without the test of checkbox.isChecked()
MissingSectionsAllBoxes(path) ==
  LET lacking == SelectSeq(section_checkboxes,
                   LAMBDA cb : ~SectionIn[path][cb.section])
  IN  [i \in 1..Len(lacking) |-> lacking[i].section]

\* the sections of the checked checkboxes that the content of `path` lacks,
\* in the iteration order of the section_checkboxes dict
MissingSections(path) ==
  LET lacking == SelectSeq(section_checkboxes,
                   LAMBDA cb : cb.checked /\ ~SectionIn[path][cb.section])
  IN  [i \in 1..Len(lacking) |-> lacking[i].section]

\* StructureChecked without the test of required_structure
StructureCheckedAlways(file_info) ==
  IF ~Structured[file_info.path]
  THEN [file_info EXCEPT !.issues = Append(@, StructureIssue(current_standard))]
  ELSE file_info

\* the structure check of _validate_text_policy
StructureChecked(file_info) ==
  IF /\ validation_standards[current_standard].required_structure
     /\ ~Structured[file_info.path]
  THEN [file_info EXCEPT !.issues = Append(@, StructureIssue(current_standard))]
  ELSE file_info

\* the section check of _validate_text_policy
SectionsChecked(file_info) ==
  LET missing_sections == MissingSections(file_info.path)
  IN  IF missing_sections # <<>>
      THEN [file_info EXCEPT
              !.valid = FALSE,
              !.issues = Append(@, MissingIssue(missing_sections, current_standard))]
      ELSE file_info

\* Failed without the assignment to file_info['valid']
FailedKeepsValid(file_info, e) ==
  [file_info EXCEPT !.issues = Append(@, ErrorIssue(e))]

\* the except branch of _validate_text_policy
Failed(file_info, e) ==
  [file_info EXCEPT !.valid = FALSE, !.issues = Append(@, ErrorIssue(e))]

\* _validate_text_policy setting the flag to True before its checks
ValidateTextFresh(file_info) ==
  LET read == Disk[file_info.path].read
      content == Content[file_info.path]
      fresh == [file_info EXCEPT !.valid = TRUE]
  IN  IF ~read.ok THEN Failed(fresh, read.error)
      ELSE IF current_standard \notin DOMAIN validation_standards
        THEN Failed(fresh, KeyErrorText(current_standard))
      ELSE IF Len(content) < validation_standards[current_standard].min_length
        THEN [fresh EXCEPT
                !.valid = FALSE,
                !.issues = Append(@, LengthIssue(Len(content), current_standard))]
      ELSE StructureChecked(SectionsChecked(fresh))

\* _validate_text_policy without the return that ends the length check
ValidateTextNoReturn(file_info) ==
  LET read == Disk[file_info.path].read
      content == Content[file_info.path]
  IN  IF ~read.ok THEN Failed(file_info, read.error)
      ELSE IF current_standard \notin DOMAIN validation_standards
        THEN Failed(file_info, KeyErrorText(current_standard))
      ELSE IF Len(content) < validation_standards[current_standard].min_length
        THEN StructureChecked(SectionsChecked(
               [file_info EXCEPT
                  !.valid = FALSE,
                  !.issues = Append(@, LengthIssue(Len(content), current_standard))]))
      ELSE StructureChecked(SectionsChecked(file_info))

\* _validate_text_policy returning after the section check when sections
\* are missing
ValidateTextStopAtMissing(file_info) ==
  LET read == Disk[file_info.path].read
      content == Content[file_info.path]
  IN  IF ~read.ok THEN Failed(file_info, read.error)
      ELSE IF current_standard \notin DOMAIN validation_standards
        THEN Failed(file_info, KeyErrorText(current_standard))
      ELSE IF Len(content) < validation_standards[current_standard].min_length
        THEN [file_info EXCEPT
                !.valid = FALSE,
                !.issues = Append(@, LengthIssue(Len(content), current_standard))]
      ELSE IF MissingSections(file_info.path) # <<>>
        THEN SectionsChecked(file_info)
      ELSE StructureChecked(SectionsChecked(file_info))

_validate_text_policy(file_info) ==
  LET read == Disk[file_info.path].read
      content == Content[file_info.path]
  IN  IF ~read.ok THEN Failed(file_info, read.error)
      ELSE IF current_standard \notin DOMAIN validation_standards
        THEN Failed(file_info, KeyErrorText(current_standard))
      ELSE IF Len(content) < validation_standards[current_standard].min_length
        THEN [file_info EXCEPT
                !.valid = FALSE,
                !.issues = Append(@, LengthIssue(Len(content), current_standard))]
      ELSE StructureChecked(SectionsChecked(file_info))

\* the size floor of _validate_pdf_policy and _validate_word_policy
SizeFloor == 1000

\* _validate_pdf_policy marking a file below the size floor invalid
ValidatePdfSizeFatal(file_info) ==
  _validate_text_policy(
    IF file_info.size < SizeFloor
    THEN [file_info EXCEPT !.valid = FALSE,
                           !.issues = Append(@, "PDF file is suspiciously small")]
    ELSE file_info)

_validate_pdf_policy(file_info) ==
  _validate_text_policy(
    IF file_info.size < SizeFloor
    THEN [file_info EXCEPT !.issues = Append(@, "PDF file is suspiciously small")]
    ELSE file_info)

_validate_word_policy(file_info) ==
  _validate_text_policy(
    IF file_info.size < SizeFloor
    THEN [file_info EXCEPT !.issues = Append(@, "Word document is suspiciously small")]
    ELSE file_info)

\* the lines validate_policies logs for the issues a record already has
RECURSIVE WarningLines(_)
WarningLines(issues) ==
  IF issues = <<>> THEN <<>>
  ELSE <<log_status("Warning: " \o Head(issues), TRUE)>> \o WarningLines(Tail(issues))

\* ResultLine with the test of the issues list before the test of the flag
ResultLineIssuesFirst(file_info) ==
  LET file_name == basename(file_info.path)
  IN  IF file_info.issues = <<>>
      THEN IF file_info.valid
           THEN log_status(file_name \o " validated successfully", FALSE)
           ELSE log_status(file_name \o " failed validation", TRUE)
      ELSE log_status(file_name \o " validated with warnings", FALSE)

\* the line that reports the result of one validated record
ResultLine(file_info) ==
  LET file_name == basename(file_info.path)
  IN  IF file_info.valid
      THEN IF file_info.issues = <<>>
           THEN log_status(file_name \o " validated successfully", FALSE)
           ELSE log_status(file_name \o " validated with warnings", FALSE)
      ELSE log_status(file_name \o " failed validation", TRUE)

\* one iteration of the loop of validate_policies
ValidateOne(st, file_info) ==
  LET file_name == basename(file_info.path)
      before == Append(st.log, log_status("Validating " \o file_name \o "...", FALSE))
                \o WarningLines(file_info.issues)
      Done(result) == [files |-> Append(st.files, result),
                       log |-> Append(before, ResultLine(result))]
  IN  IF file_info.type = "txt" THEN Done(_validate_text_policy(file_info))
      ELSE IF file_info.type = "pdf" THEN Done(_validate_pdf_policy(file_info))
      ELSE IF file_info.type \in {"doc", "docx"}
        THEN Done(_validate_word_policy(file_info))
      ELSE [files |-> Append(st.files, file_info),
            log |-> Append(before, log_status("Cannot validate " \o file_name
                                              \o ": Unknown type", TRUE))]

\* the loop of validate_policies leaving at the first record that fails
RECURSIVE ValidateUntilFailure(_, _)
ValidateUntilFailure(st, files) ==
  IF files = <<>> THEN st
  ELSE LET next == ValidateOne(st, Head(files))
       IN  IF next.files[Len(next.files)].valid
           THEN ValidateUntilFailure(next, Tail(files))
           ELSE [files |-> next.files \o Tail(files), log |-> next.log]

RECURSIVE ValidateAll(_, _)
ValidateAll(st, files) ==
  IF files = <<>> THEN st
  ELSE ValidateAll(ValidateOne(st, Head(files)), Tail(files))

validate_policies ==
  /\ Load(loaded_files) < MaxLoad
  /\ IF loaded_files = <<>>
     THEN /\ status_tail' = <<log_status("No files to validate.", TRUE)>>
          /\ UNCHANGED loaded_files
     ELSE LET st == ValidateAll(
                      [files |-> <<>>,
                       log |-> <<log_status("Starting validation using "
                                            \o current_standard \o " standard...", FALSE)>>],
                      loaded_files)
          IN  /\ loaded_files' = st.files
              /\ status_tail' = Append(st.log, log_status("Validation complete!", FALSE))
  /\ UNCHANGED <<validation_standards, current_standard, section_checkboxes,
                 validate_enabled>>
  /\ UNCHANGED <<watcher_vars, validator_vars>>

(***************************************************************************)
(* Standard and section selection                                          *)
(***************************************************************************)
\* the set of the entries of sequence q
Range(q) == {q[i] : i \in 1..Len(q)}

\* update_section_checkboxes without the clear() of the dict: the entries of
\* `boxes` stay, a key that is set again keeps its place
UpdateWithoutClear(boxes, standard) ==
  IF standard \in DOMAIN validation_standards
  THEN LET sections == validation_standards[standard].sections
           kept == [i \in 1..Len(boxes) |->
                      IF boxes[i].section \in Range(sections)
                      THEN [section |-> boxes[i].section, checked |-> TRUE]
                      ELSE boxes[i]]
           fresh == SelectSeq(sections,
                      LAMBDA s : s \notin {boxes[i].section : i \in 1..Len(boxes)})
       IN  kept \o [i \in 1..Len(fresh) |-> [section |-> fresh[i], checked |-> TRUE]]
  ELSE boxes

\* the dict update_section_checkboxes leaves in section_checkboxes when it
\* held `boxes` and the active standard is `standard`: the old entries are
\* cleared, the new keys are in insertion order, all checked
update_section_checkboxes(boxes, standard) ==
  IF standard \in DOMAIN validation_standards
  THEN LET sections == validation_standards[standard].sections
       IN  [i \in 1..Len(sections) |-> [section |-> sections[i], checked |-> TRUE]]
  ELSE <<>>

\* on_standard_changed marking every loaded record valid again
OnStandardChangedRevalidates(standard) ==
  /\ current_standard' = standard
  /\ section_checkboxes' = update_section_checkboxes(section_checkboxes, standard)
  /\ loaded_files' = [i \in 1..Len(loaded_files) |->
                        [loaded_files[i] EXCEPT !.valid = TRUE]]
  /\ status_tail' = <<log_status("Changed validation standard to: " \o standard, FALSE)>>
  /\ UNCHANGED <<validation_standards, validate_enabled>>
  /\ UNCHANGED <<watcher_vars, validator_vars>>

\* on_standard_changed entering a name it does not know into the registry
OnStandardChangedRegisters(standard) ==
  /\ current_standard' = standard
  /\ validation_standards' =
       IF standard \in DOMAIN validation_standards THEN validation_standards
       ELSE validation_standards
              @@ (standard :> [sections |-> <<>>, min_length |-> 0,
                               required_structure |-> FALSE])
  /\ section_checkboxes' = update_section_checkboxes(section_checkboxes, standard)
  /\ status_tail' = <<log_status("Changed validation standard to: " \o standard, FALSE)>>
  /\ UNCHANGED <<loaded_files, validate_enabled>>
  /\ UNCHANGED <<watcher_vars, validator_vars>>

on_standard_changed(standard) ==
  /\ current_standard' = standard
  /\ section_checkboxes' = update_section_checkboxes(section_checkboxes, standard)
  /\ status_tail' = <<log_status("Changed validation standard to: " \o standard, FALSE)>>
  /\ UNCHANGED <<validation_standards, loaded_files, validate_enabled>>
  /\ UNCHANGED <<watcher_vars, validator_vars>>

\* the sections whose checkbox the user clicks
ToggledSections == {"access control"}

\* the user clicks the i-th section checkbox
ToggleSection(i) ==
  /\ i \in 1..Len(section_checkboxes)
  /\ section_checkboxes[i].section \in ToggledSections
  /\ section_checkboxes' =
       [section_checkboxes EXCEPT ![i].checked = ~section_checkboxes[i].checked]
  /\ UNCHANGED <<validation_standards, current_standard, loaded_files,
                 validate_enabled, status_tail>>
  /\ UNCHANGED <<watcher_vars, validator_vars>>

\* clear_all putting the section selection back to all checked
ClearAllResetsSelection ==
  /\ loaded_files' = <<>>
  /\ validate_enabled' = FALSE
  /\ section_checkboxes' = update_section_checkboxes(section_checkboxes, current_standard)
  /\ status_tail' = <<log_status("All files cleared.", FALSE)>>
  /\ UNCHANGED <<validation_standards, current_standard>>
  /\ UNCHANGED <<watcher_vars, validator_vars>>

clear_all ==
  /\ loaded_files' = <<>>
  /\ validate_enabled' = FALSE
  /\ status_tail' = <<log_status("All files cleared.", FALSE)>>
  /\ UNCHANGED <<validation_standards, current_standard, section_checkboxes>>
  /\ UNCHANGED <<watcher_vars, validator_vars>>

(***************************************************************************)
(* PolicyFileHandler                                                       *)
(***************************************************************************)
DEFAULT_PATTERNS == <<"*.pdf", "*.docx", "*.doc", "*.txt">>

\* seconds
DEFAULT_DEBOUNCE_DELAY == 1

\* the arguments of the constructor that select the events to handle and
\* the directories to ignore; file_patterns and debounce_delay keep their
\* defaults
DefaultConfig ==
  [watch_creation |-> TRUE, watch_deletion |-> FALSE, watch_movement |-> FALSE,
   ignored_dirs |-> {}]

Configs ==
  { DefaultConfig,
    [watch_creation |-> TRUE, watch_deletion |-> TRUE, watch_movement |-> TRUE,
     ignored_dirs |-> {"/w/archive"}] }

\* the events the observer dispatches for a created, modified or deleted
\* path
FileEvents ==
  { [src_path |-> "/w/./a.txt", is_directory |-> FALSE],
    [src_path |-> "/w/b.docx", is_directory |-> FALSE],
    [src_path |-> "/w/readme.md", is_directory |-> FALSE],
    [src_path |-> "/w/archive", is_directory |-> TRUE] }

\* the events the observer dispatches for a moved path
MoveEvents ==
  { [src_path |-> "/w/./a.txt", dest_path |-> "/w/b.docx", is_directory |-> FALSE],
    [src_path |-> "/w/b.docx", dest_path |-> "/w/archive/old.txt", is_directory |-> FALSE],
    [src_path |-> "/w/archive", dest_path |-> "/w/readme.md", is_directory |-> TRUE] }

\* os.path.abspath for the paths of the events
abspath(path) ==
  CASE path = "/w/./a.txt" -> "/w/a.txt"
    [] OTHER -> path

\* the absolute paths of the events
FilePaths ==
  {abspath(e.src_path) : e \in FileEvents \cup MoveEvents}
  \cup {abspath(e.dest_path) : e \in MoveEvents}

\* str.startswith and str.endswith
startswith(s, prefix) ==
  /\ Len(prefix) <= Len(s)
  /\ \A k \in 1..Len(prefix) : s[k] = prefix[k]
endswith(s, suffix) ==
  /\ Len(suffix) <= Len(s)
  /\ \A k \in 1..Len(suffix) : s[Len(s) - Len(suffix) + k] = suffix[k]

_path_matches_pattern(file_path, pattern) ==
  IF startswith(Chars(pattern), Chars("*."))
  THEN endswith(Chars(file_path), Tail(Chars(pattern)))
  ELSE endswith(Chars(file_path), SelectSeq(Chars(pattern), LAMBDA c : c # "*"))

\* any(_path_matches_pattern(file_path, pattern) for pattern in file_patterns)
MatchesAnyPattern(file_path) ==
  \E k \in 1..Len(DEFAULT_PATTERNS) :
    _path_matches_pattern(file_path, DEFAULT_PATTERNS[k])

\* exists is what os.path.exists(file_path) returns
_should_process_file(file_path, exists) ==
  /\ exists
  /\ \A ignored_dir \in config.ignored_dirs :
       ~startswith(Chars(file_path), Chars(ignored_dir))
  /\ MatchesAnyPattern(file_path)

\* _last_modified maps every path to its last-seen time, or to Absent when
\* the dict has no entry for the path
Absent == -1

\* the threads that call the handler: the observer of the FileWatcher, which
\* dispatches its events from its own thread, and the thread of a second
\* observer that the same handler is scheduled on
Threads == {"observer", "observer2"}

\* the thread of the observer that FileWatcher schedules its handler on
Dispatcher == {"observer"}

\* a thread that is in no handler method
Idle ==
  [pc |-> "idle", handler |-> "", src_path |-> "", file_path |-> "",
   current_time |-> 0]

\* handler method `handler` of thread t got past its filters for file_path
\* at the present time and goes on at pc
Entered(t, handler, src_path, file_path, pc) ==
  threads' = [threads EXCEPT ![t] =
                [pc |-> pc, handler |-> handler, src_path |-> src_path,
                 file_path |-> file_path, current_time |-> clock]]

\* thread t can be handed an event
CanEnter(t) ==
  /\ observer.alive
  /\ threads[t].pc = "idle"

\* on_modified up to the reading of time.time()
on_modified(t, event, exists) ==
  /\ CanEnter(t)
  /\ LET file_path == abspath(event.src_path)
     IN  IF event.is_directory \/ ~_should_process_file(file_path, exists)
         THEN UNCHANGED threads
         ELSE Entered(t, "on_modified", event.src_path, file_path, "debounce")
  /\ UNCHANGED <<config, _last_modified, clock, last_callback, printed,
                 _started, observer>>
  /\ UNCHANGED <<app_vars, validator_vars>>

\* the block of on_modified without the lock: the test can read the table
\* before another thread that passed its own test for the path has written
DebounceUnlocked(t) ==
  LET file_path == threads[t].file_path
      current_time == threads[t].current_time
      process_event ==
        \/ _last_modified[file_path] = Absent
        \/ current_time - _last_modified[file_path] > DEFAULT_DEBOUNCE_DELAY
        \/ \E u \in Threads \ {t} :
             /\ threads[u].pc = "callback"
             /\ threads[u].file_path = file_path
  IN  /\ threads[t].pc = "debounce"
      /\ _last_modified' = IF process_event
                           THEN [_last_modified EXCEPT ![file_path] = current_time]
                           ELSE _last_modified
      /\ threads' = IF process_event THEN [threads EXCEPT ![t].pc = "callback"]
                    ELSE [threads EXCEPT ![t] = Idle]
      /\ UNCHANGED <<config, clock, last_callback, printed, _started, observer>>
      /\ UNCHANGED <<app_vars, validator_vars>>

\* the block with one last-seen time for all paths
DebounceSharedWindow(t) ==
  LET file_path == threads[t].file_path
      current_time == threads[t].current_time
      process_event ==
        \A other \in FilePaths :
          \/ _last_modified[other] = Absent
          \/ current_time - _last_modified[other] > DEFAULT_DEBOUNCE_DELAY
  IN  /\ threads[t].pc = "debounce"
      /\ _last_modified' = IF process_event
                           THEN [_last_modified EXCEPT ![file_path] = current_time]
                           ELSE _last_modified
      /\ threads' = IF process_event THEN [threads EXCEPT ![t].pc = "callback"]
                    ELSE [threads EXCEPT ![t] = Idle]
      /\ UNCHANGED <<config, clock, last_callback, printed, _started, observer>>
      /\ UNCHANGED <<app_vars, validator_vars>>

\* the block with >= in place of >
DebounceAtDelay(t) ==
  LET file_path == threads[t].file_path
      current_time == threads[t].current_time
      process_event ==
        \/ _last_modified[file_path] = Absent
        \/ current_time - _last_modified[file_path] >= DEFAULT_DEBOUNCE_DELAY
  IN  /\ threads[t].pc = "debounce"
      /\ _last_modified' = IF process_event
                           THEN [_last_modified EXCEPT ![file_path] = current_time]
                           ELSE _last_modified
      /\ threads' = IF process_event THEN [threads EXCEPT ![t].pc = "callback"]
                    ELSE [threads EXCEPT ![t] = Idle]
      /\ UNCHANGED <<config, clock, last_callback, printed, _started, observer>>
      /\ UNCHANGED <<app_vars, validator_vars>>

\* the block keeping a suppressed event for a call at the end of the window
DebounceTrailing(t) ==
  LET file_path == threads[t].file_path
      current_time == threads[t].current_time
      process_event ==
        \/ _last_modified[file_path] = Absent
        \/ current_time - _last_modified[file_path] > DEFAULT_DEBOUNCE_DELAY
  IN  /\ threads[t].pc = "debounce"
      /\ _last_modified' = IF process_event
                           THEN [_last_modified EXCEPT ![file_path] = current_time]
                           ELSE _last_modified
      /\ threads' = [threads EXCEPT ![t].pc = "callback"]
      /\ UNCHANGED <<config, clock, last_callback, printed, _started, observer>>
      /\ UNCHANGED <<app_vars, validator_vars>>

\* the block of on_modified that holds the lock
Debounce(t) ==
  LET file_path == threads[t].file_path
      current_time == threads[t].current_time
      process_event ==
        \/ _last_modified[file_path] = Absent
        \/ current_time - _last_modified[file_path] > DEFAULT_DEBOUNCE_DELAY
  IN  /\ threads[t].pc = "debounce"
      /\ _last_modified' = IF process_event
                           THEN [_last_modified EXCEPT ![file_path] = current_time]
                           ELSE _last_modified
      /\ threads' = IF process_event THEN [threads EXCEPT ![t].pc = "callback"]
                    ELSE [threads EXCEPT ![t] = Idle]
      /\ UNCHANGED <<config, clock, last_callback, printed, _started, observer>>
      /\ UNCHANGED <<app_vars, validator_vars>>

on_created(t, event, exists) ==
  /\ CanEnter(t)
  /\ LET file_path == abspath(event.src_path)
     IN  IF \/ ~config.watch_creation
            \/ event.is_directory
            \/ ~_should_process_file(file_path, exists)
         THEN UNCHANGED threads
         ELSE Entered(t, "on_created", event.src_path, file_path, "callback")
  /\ UNCHANGED <<config, _last_modified, clock, last_callback, printed,
                 _started, observer>>
  /\ UNCHANGED <<app_vars, validator_vars>>

\* on_deleted up to the block that holds the lock
on_deleted(t, event) ==
  /\ CanEnter(t)
  /\ LET file_path == abspath(event.src_path)
     IN  IF \/ ~config.watch_deletion
            \/ event.is_directory
            \/ ~MatchesAnyPattern(file_path)
         THEN UNCHANGED threads
         ELSE Entered(t, "on_deleted", event.src_path, file_path, "untrack")
  /\ UNCHANGED <<config, _last_modified, clock, last_callback, printed,
                 _started, observer>>
  /\ UNCHANGED <<app_vars, validator_vars>>

\* the block of on_deleted that holds the lock
Untrack(t) ==
  /\ threads[t].pc = "untrack"
  /\ _last_modified' = [_last_modified EXCEPT ![threads[t].file_path] = Absent]
  /\ threads' = [threads EXCEPT ![t].pc = "callback"]
  /\ UNCHANGED <<config, clock, last_callback, printed, _started, observer>>
  /\ UNCHANGED <<app_vars, validator_vars>>

\* on_moved up to the block that holds the lock
on_moved(t, event, exists) ==
  /\ CanEnter(t)
  /\ LET dest_path == abspath(event.dest_path)
     IN  IF \/ ~config.watch_movement
            \/ event.is_directory
            \/ ~_should_process_file(dest_path, exists)
         THEN UNCHANGED threads
         ELSE Entered(t, "on_moved", event.src_path, dest_path, "retrack")
  /\ UNCHANGED <<config, _last_modified, clock, last_callback, printed,
                 _started, observer>>
  /\ UNCHANGED <<app_vars, validator_vars>>

\* the block of on_moved that holds the lock
Retrack(t) ==
  LET src_path == abspath(threads[t].src_path)
      dest_path == threads[t].file_path
  IN  /\ threads[t].pc = "retrack"
      /\ _last_modified' =
           IF _last_modified[src_path] # Absent
           THEN [[_last_modified EXCEPT ![dest_path] = _last_modified[src_path]]
                   EXCEPT ![src_path] = Absent]
           ELSE _last_modified
      /\ threads' = [threads EXCEPT ![t].pc = "callback"]
      /\ UNCHANGED <<config, clock, last_callback, printed, _started, observer>>
      /\ UNCHANGED <<app_vars, validator_vars>>

\* what the handler prints when the callback raises
CallbackErrorLine(handler) ==
  ( CASE handler = "on_modified" -> "Error in file watcher callback: "
      [] handler = "on_created" -> "Error in file creation callback: "
      [] handler = "on_deleted" -> "Error in file deletion callback: "
      [] handler = "on_moved" -> "Error in file movement callback: " )
  \o "callback failed"

\* self.callback(file_path) without the except clause: the exception ends
\* the thread of the observer
CallbackUncaught(t, raises) ==
  /\ threads[t].pc = "callback"
  /\ last_callback' =
       [last_callback EXCEPT ![threads[t].file_path] = threads[t].current_time]
  /\ printed' = IF raises THEN <<CallbackErrorLine(threads[t].handler)>> ELSE <<>>
  /\ threads' = [threads EXCEPT ![t] = Idle]
  /\ observer' = IF raises THEN [observer EXCEPT !.alive = FALSE] ELSE observer
  /\ UNCHANGED <<config, _last_modified, clock, _started>>
  /\ UNCHANGED <<app_vars, validator_vars>>

\* self.callback(file_path) and the except clause around it; the callback
\* notes for the path the time of the event it is called for
callback(t, raises) ==
  /\ threads[t].pc = "callback"
  /\ last_callback' =
       [last_callback EXCEPT ![threads[t].file_path] = threads[t].current_time]
  /\ printed' = IF raises THEN <<CallbackErrorLine(threads[t].handler)>> ELSE <<>>
  /\ threads' = [threads EXCEPT ![t] = Idle]
  /\ UNCHANGED <<config, _last_modified, clock, _started, observer>>
  /\ UNCHANGED <<app_vars, validator_vars>>

\* a second passes
Tick ==
  /\ clock < MaxTime
  /\ clock' = clock + 1
  /\ UNCHANGED <<config, _last_modified, threads, last_callback, printed,
                 _started, observer>>
  /\ UNCHANGED <<app_vars, validator_vars>>

(***************************************************************************)
(* FileWatcher.  The observer is the watchdog thread: alive says whether   *)
(* it is running, calls lists the methods of the observer that the most    *)
(* recent call of start or stop invoked.                                   *)
(***************************************************************************)
\* succeeds says whether observer.start() returns; when it raises, start
\* raises RuntimeError
start(succeeds) ==
  /\ IF _started
     THEN /\ observer' = [observer EXCEPT !.calls = <<>>]
          /\ UNCHANGED _started
     ELSE IF succeeds
       THEN /\ observer' = [alive |-> TRUE, calls |-> <<"start">>]
            /\ _started' = TRUE
     ELSE /\ observer' = [observer EXCEPT !.calls = <<"start">>]
          /\ UNCHANGED _started
  /\ UNCHANGED <<config, _last_modified, clock, threads, last_callback, printed>>
  /\ UNCHANGED <<app_vars, validator_vars>>

\* stop without the assignment of the except clause
StopKeepsFlagOnError(succeeds, alive) ==
  /\ IF ~_started
     THEN /\ observer' = [observer EXCEPT !.calls = <<>>]
          /\ UNCHANGED <<_started, printed>>
     ELSE IF succeeds
       THEN /\ observer' = [alive |-> FALSE, calls |-> <<"stop", "join">>]
            /\ _started' = FALSE
            /\ UNCHANGED printed
     ELSE /\ observer' = [alive |-> alive,
                          calls |-> IF alive THEN <<"stop">> ELSE <<"stop", "join">>]
          /\ UNCHANGED _started
          /\ printed' = <<"Error stopping file watcher: observer failed">>
  /\ UNCHANGED <<config, _last_modified, clock, threads, last_callback>>
  /\ UNCHANGED <<app_vars, validator_vars>>

\* succeeds says whether observer.stop() and observer.join() return; when
\* observer.stop() raises the observer thread still runs (alive), when
\* observer.join() raises it has been told to stop
stop(succeeds, alive) ==
  /\ IF ~_started
     THEN /\ observer' = [observer EXCEPT !.calls = <<>>]
          /\ UNCHANGED <<_started, printed>>
     ELSE IF succeeds
       THEN /\ observer' = [alive |-> FALSE, calls |-> <<"stop", "join">>]
            /\ _started' = FALSE
            /\ UNCHANGED printed
     ELSE /\ observer' = [alive |-> alive,
                          calls |-> IF alive THEN <<"stop">> ELSE <<"stop", "join">>]
          /\ _started' = FALSE
          /\ printed' = <<"Error stopping file watcher: observer failed">>
  /\ UNCHANGED <<config, _last_modified, clock, threads, last_callback>>
  /\ UNCHANGED <<app_vars, validator_vars>>

is_watching == _started /\ observer.alive

(***************************************************************************)
(* BaseValidator (src/policy_validator/validators/base_validator.py).      *)
(* A dict is a function from its keys; an optional argument is the empty   *)
(* sequence for None and a one-element sequence for a value.               *)
(***************************************************************************)
None == <<>>

Some(value) == <<value>>

\* a dict without entries
EmptyDict == <<>>

\* document_content without a 'text' entry
NoText == [metadata |-> EmptyDict]

\* the parsed documents a validator is constructed over
Documents ==
  { NoText,
    [text |-> <<>>, metadata |-> EmptyDict],
    [text |-> Fill(3), metadata |-> EmptyDict],
    [text |-> Fill(5), metadata |-> EmptyDict] }

\* the dicts given to set_validation_options
OptionChoices ==
  { EmptyDict,
    [structure_required |-> TRUE],
    [min_length |-> 0],
    [min_length |-> 5],
    [min_length |-> 6] }

\* the arguments of the add_result calls of a subclass
ResultCalls ==
  { [section |-> "general", status |-> "pass",
     message |-> "Document accepted", details |-> None],
    [section |-> "structure", status |-> "warning",
     message |-> "No headers found", details |-> Some(EmptyDict)],
    [section |-> "access_control", status |-> "fail",
     message |-> "Missing required subsections",
     details |-> Some([missing |-> <<"authentication", "authorization">>])] }

\* dict.get(key, default)
get(dict, key, default) ==
  IF key \in DOMAIN dict THEN Some(dict[key]) ELSE default

\* truth value of an optional dict or string: None and the empty one are false
Truthy(optional) ==
  /\ optional # None
  /\ DOMAIN optional[1] # {}

\* datetime.now().isoformat() at the present time
isoformat(time) == "2024-01-01T00:00:0" \o ToString(time)

\* the record add_result builds; 'details' is entered only when truthy
Result(section, status, message, details) ==
  LET result == [timestamp |-> isoformat(clock), section |-> section,
                 status |-> status, message |-> message]
  IN  IF Truthy(details)
        THEN [key \in DOMAIN result \cup {"details"} |->
                IF key = "details" THEN details[1] ELSE result[key]]
        ELSE result

\* add_result putting the new record in front of the earlier ones
AddResultInFront(section, status, message, details) ==
  /\ Len(validation_results) < MaxResults
  /\ validation_results' =
       <<Result(section, status, message, details)>> \o validation_results
  /\ UNCHANGED <<document_content, validation_options, returned>>
  /\ UNCHANGED <<app_vars, watcher_vars>>

add_result(section, status, message, details) ==
  /\ Len(validation_results) < MaxResults
  /\ validation_results' =
       Append(validation_results, Result(section, status, message, details))
  /\ UNCHANGED <<document_content, validation_options, returned>>
  /\ UNCHANGED <<app_vars, watcher_vars>>

get_results == validation_results

set_validation_options(options) ==
  /\ validation_options' = options
  /\ UNCHANGED <<document_content, validation_results, returned>>
  /\ UNCHANGED <<app_vars, watcher_vars>>

\* the message of the length check
BelowMinimum(min_length) ==
  "Document length below minimum requirement of " \o ToString(min_length)
    \o " characters"

\* _validate_basic_requirements running the length check on an empty text
BasicRequirementsLengthFirst ==
  LET text == get(document_content, "text", Some(<<>>))
      min_length == get(validation_options, "min_length", Some(0))[1]
  IN  IF Len(text[1]) < min_length
        THEN [results |->
                <<Result("general", "fail", BelowMinimum(min_length),
                         Some([current_length |-> Len(text[1])]))>>,
              value |-> FALSE]
      ELSE IF ~Truthy(text)
        THEN [results |-> <<Result("general", "fail", "Document is empty", None)>>,
              value |-> FALSE]
      ELSE [results |-> <<>>, value |-> TRUE]

\* what _validate_basic_requirements records and returns
BasicRequirements ==
  LET text == get(document_content, "text", None)
      min_length == get(validation_options, "min_length", Some(0))[1]
  IN  IF ~Truthy(text)
        THEN [results |-> <<Result("general", "fail", "Document is empty", None)>>,
              value |-> FALSE]
      ELSE IF Len(text[1]) < min_length
        THEN [results |->
                <<Result("general", "fail", BelowMinimum(min_length),
                         Some([current_length |-> Len(text[1])]))>>,
              value |-> FALSE]
      ELSE [results |-> <<>>, value |-> TRUE]

_validate_basic_requirements ==
  /\ Len(validation_results) < MaxResults
  /\ validation_results' = validation_results \o BasicRequirements.results
  /\ returned' = <<BasicRequirements.value>>
  /\ UNCHANGED <<document_content, validation_options>>
  /\ UNCHANGED <<app_vars, watcher_vars>>

\* BaseValidator.__init__
BaseValidatorInit(document) ==
  /\ document_content = document
  /\ validation_results = <<>>
  /\ validation_options = EmptyDict
  /\ returned = None

(***************************************************************************)
(* Specification                                                           *)
(***************************************************************************)
\* PolicyValidatorApp.__init__
AppInit ==
  /\ validation_standards = StandardsAtStartup
  /\ current_standard = "Custom"
  /\ section_checkboxes = update_section_checkboxes(<<>>, "Custom")
  /\ loaded_files = <<>>
  /\ validate_enabled = FALSE
  /\ status_tail = <<>>

\* FileWatcher.__init__ with the handler configured by c
FileWatcherInit(c) ==
  /\ config = c
  /\ _last_modified = [file_path \in FilePaths |-> Absent]
  /\ clock = 0
  /\ threads = [t \in Threads |-> Idle]
  /\ last_callback = [file_path \in FilePaths |-> Absent]
  /\ printed = <<>>
  /\ _started = FALSE
  /\ observer = [alive |-> FALSE, calls |-> <<>>]

Init == AppInit /\ FileWatcherInit(DefaultConfig) /\ BaseValidatorInit(NoText)

Next ==
  \/ \E file_paths \in PathLists : process_files(file_paths)
  \/ validate_policies
  \/ \E standard \in StandardChoices : on_standard_changed(standard)
  \/ \E i \in 1..Len(section_checkboxes) : ToggleSection(i)
  \/ clear_all

vars == <<app_vars, watcher_vars, validator_vars>>

Spec == Init /\ [][Next]_vars

\* the file watcher on its own, under each configuration
WatcherInit ==
  /\ AppInit
  /\ \E c \in Configs : FileWatcherInit(c)
  /\ BaseValidatorInit(NoText)

WatcherNext ==
  \/ \E t \in Dispatcher, event \in FileEvents, exists \in BOOLEAN :
       on_modified(t, event, exists)
  \/ \E t \in Dispatcher : Debounce(t)
  \/ \E t \in Dispatcher, event \in FileEvents, exists \in BOOLEAN :
       on_created(t, event, exists)
  \/ \E t \in Dispatcher, event \in FileEvents : on_deleted(t, event)
  \/ \E t \in Dispatcher : Untrack(t)
  \/ \E t \in Dispatcher, event \in MoveEvents, exists \in BOOLEAN :
       on_moved(t, event, exists)
  \/ \E t \in Dispatcher : Retrack(t)
  \/ \E t \in Dispatcher, raises \in BOOLEAN : callback(t, raises)
  \/ Tick
  \/ \E succeeds \in BOOLEAN : start(succeeds)
  \/ \E succeeds \in BOOLEAN, alive \in BOOLEAN : stop(succeeds, alive)

WatcherSpec == WatcherInit /\ [][WatcherNext]_vars

\* the handler on its own under the default configuration, handed
\* modification events by two observers at once
HandlerNext ==
  \/ \E t \in Threads, event \in FileEvents, exists \in BOOLEAN :
       on_modified(t, event, exists)
  \/ \E t \in Threads : Debounce(t)
  \/ \E t \in Threads, raises \in BOOLEAN : callback(t, raises)
  \/ Tick
  \/ \E succeeds \in BOOLEAN : start(succeeds)

HandlerSpec == Init /\ [][HandlerNext]_vars

\* a validator on its own, constructed over each document; a subclass's
\* validate() is any sequence of these calls
ValidatorInit ==
  /\ AppInit
  /\ FileWatcherInit(DefaultConfig)
  /\ \E document \in Documents : BaseValidatorInit(document)

ValidatorNext ==
  \/ \E call \in ResultCalls :
       add_result(call.section, call.status, call.message, call.details)
  \/ \E options \in OptionChoices : set_validation_options(options)
  \/ _validate_basic_requirements
  \/ Tick

ValidatorSpec == ValidatorInit /\ [][ValidatorNext]_vars

(***************************************************************************)
(* Vocabulary of the properties.  A validation run is a step of            *)
(* validate_policies that finds at least one loaded file; the properties   *)
(* about a run relate the record of a file before the run (unprimed) to    *)
(* the record after it (primed).                                           *)
(***************************************************************************)
RunStep == loaded_files # <<>> /\ validate_policies

\* the active standard is a key of the registry
Registered == current_standard \in StandardNames

\* the checkbox of section s exists and is checked
Selected(s) ==
  \E j \in 1..Len(section_checkboxes) :
    section_checkboxes[j].section = s /\ section_checkboxes[j].checked

\* the file of the i-th record can be read and decoded
Reads(i) == Disk[loaded_files[i].path].read.ok

\* the lowercased text of the i-th record meets the active standard's minimum
LengthOk(i) ==
  Len(Content[loaded_files[i].path]) >= validation_standards[current_standard].min_length

\* the selected sections the i-th record's text lacks, in the order the active
\* standard defines its sections
ExpectedMissing(i) ==
  SelectSeq(validation_standards[current_standard].sections,
            LAMBDA s : Selected(s) /\ ~SectionIn[loaded_files[i].path][s])

\* the text of the i-th record has neither a header nor a numbered item
Unstructured(i) == ~Structured[loaded_files[i].path]

\* the issues the run appended to the i-th record
Appended(i) ==
  SubSeq(loaded_files'[i].issues, Len(loaded_files[i].issues) + 1,
         Len(loaded_files'[i].issues))

\* the run kept the issues the i-th record had
KeepsIssues(i) ==
  /\ Len(loaded_files'[i].issues) >= Len(loaded_files[i].issues)
  /\ SubSeq(loaded_files'[i].issues, 1, Len(loaded_files[i].issues))
       = loaded_files[i].issues

\* the issue the size floor puts before the text validation of the i-th record
SizeIssues(i) ==
  IF loaded_files[i].size >= SizeFloor THEN <<>>
  ELSE IF loaded_files[i].type = "pdf" THEN <<"PDF file is suspiciously small">>
  ELSE IF loaded_files[i].type \in {"doc", "docx"}
    THEN <<"Word document is suspiciously small">>
  ELSE <<>>

\* the issues the text validation appended to the i-th record
TextAppended(i) ==
  SubSeq(Appended(i), Len(SizeIssues(i)) + 1, Len(Appended(i)))

\* the number of entries of sequence q equal to x
Count(q, x) == Cardinality({k \in 1..Len(q) : q[k] = x})

\* the last line of the status area is the one validate_policies ends with
RunReported ==
  /\ status_tail # <<>>
  /\ status_tail[Len(status_tail)] = log_status("Validation complete!", FALSE)

(***************************************************************************)
(* C1 - short-circuit law: when the lowercased text of a file is shorter   *)
(* than the active standard's min_length, the text validation marks the    *)
(* record invalid and appends exactly one issue, the one reporting the     *)
(* actual and the required length; no missing-sections issue and no        *)
(* structure issue is appended in that run.                                *)
(***************************************************************************)
ShortCircuitLaw ==
  [][RunStep =>
       \A i \in 1..Len(loaded_files) :
         (Reads(i) /\ Registered /\ ~LengthOk(i)) =>
           /\ ~loaded_files'[i].valid
           /\ KeepsIssues(i)
           /\ TextAppended(i) =
                <<LengthIssue(Len(Content[loaded_files[i].path]), current_standard)>>]_vars

\* custom.text (90 characters) was validated against NIST SP 800-53 (1000)
ShortCircuitWitness ==
  /\ RunReported
  /\ \E i \in 1..Len(loaded_files) :
       /\ loaded_files[i].path = "/p/custom.text"
       /\ ~loaded_files[i].valid
       /\ loaded_files[i].issues =
            <<"Content length (90 chars) is below minimum requirement (1000 chars) for NIST SP 800-53">>

(***************************************************************************)
(* C2 - when a file meets the length minimum and lacks one or more         *)
(* selected sections, the run appends exactly one missing-sections issue;  *)
(* its message lists all missing selected sections joined by ", " in the   *)
(* order the standard defines them, and every other issue of the run is    *)
(* the size-floor or the structure issue.                                  *)
(***************************************************************************)
MissingSectionsListed ==
  [][RunStep =>
       \A i \in 1..Len(loaded_files) :
         (Reads(i) /\ Registered /\ LengthOk(i) /\ ExpectedMissing(i) # <<>>) =>
           LET issue == MissingIssue(ExpectedMissing(i), current_standard)
           IN  /\ KeepsIssues(i)
               /\ Count(TextAppended(i), issue) = 1
               /\ \A k \in 1..Len(TextAppended(i)) :
                    TextAppended(i)[k] \in {issue, StructureIssue(current_standard)}]_vars

\* nist.txt was validated against Custom with every section selected: four
\* sections are missing, listed in the order of the Custom standard
MissingSectionsWitness ==
  /\ RunReported
  /\ \E i \in 1..Len(loaded_files) :
       /\ loaded_files[i].path = "/p/nist.txt"
       /\ loaded_files[i].issues =
            <<"Missing required sections for Custom: password, data protection, access control, compliance">>

\* the length check, the section check or the reading of the i-th record's
\* file fails under the active standard and selection
RunFails(i) ==
  \/ ~Reads(i)
  \/ ~Registered
  \/ ~LengthOk(i)
  \/ ExpectedMissing(i) # <<>>

(***************************************************************************)
(* C3 - after any validation run, also a second run of an already          *)
(* validated file, the valid flag of a record is false if and only if the  *)
(* length check or the section check of that run failed or an error        *)
(* occurred in that run.                                                   *)
(***************************************************************************)
ValidFlagReflectsRun ==
  [][RunStep =>
       \A i \in 1..Len(loaded_files) :
         loaded_files'[i].valid = ~RunFails(i)]_vars

(***************************************************************************)
(* C4 - idempotence: a second validation run with the same standard and    *)
(* selection, right after a run, leaves the issues and the valid flag of   *)
(* every record as the first run left them.                                *)
(***************************************************************************)
SecondRunSameResult ==
  [][RunStep =>
       LET again == ValidateAll([files |-> <<>>, log |-> <<>>], loaded_files')
       IN  again.files = loaded_files']_vars

(***************************************************************************)
(* C5 - the structure advisory does not flip validity: under a standard    *)
(* with required_structure a file that passes the length and section       *)
(* checks and has neither a header nor a numbered item ends the run valid  *)
(* with exactly one structure issue appended; under a standard without     *)
(* required_structure no structure issue is appended.                      *)
(***************************************************************************)
StructureAdvisoryKeepsValid ==
  [][RunStep =>
       \A i \in 1..Len(loaded_files) :
         (Reads(i) /\ Registered /\ LengthOk(i)) =>
           IF validation_standards[current_standard].required_structure
           THEN (ExpectedMissing(i) = <<>> /\ Unstructured(i)) =>
                  /\ loaded_files'[i].valid
                  /\ TextAppended(i) = <<StructureIssue(current_standard)>>
           ELSE Count(Appended(i), StructureIssue(current_standard)) = 0]_vars

(***************************************************************************)
(* C6 - the section check does not short-circuit: when a file meets the    *)
(* length minimum, lacks selected sections and has no structure marker     *)
(* under a standard with required_structure, the text validation appends   *)
(* two issues, the missing-sections issue first and the structure issue    *)
(* second, and the record is invalid.                                      *)
(***************************************************************************)
MissingThenStructure ==
  [][RunStep =>
       \A i \in 1..Len(loaded_files) :
         ( /\ Reads(i) /\ Registered /\ LengthOk(i)
           /\ ExpectedMissing(i) # <<>>
           /\ validation_standards[current_standard].required_structure
           /\ Unstructured(i) ) =>
           /\ ~loaded_files'[i].valid
           /\ KeepsIssues(i)
           /\ TextAppended(i) =
                << MissingIssue(ExpectedMissing(i), current_standard),
                   StructureIssue(current_standard) >>]_vars

\* nist.txt was validated against NIST SP 800-53 with every section selected
MissingThenStructureWitness ==
  /\ RunReported
  /\ \E i \in 1..Len(loaded_files) :
       /\ loaded_files[i].path = "/p/nist.txt"
       /\ ~loaded_files[i].valid
       /\ loaded_files[i].issues =
            << "Missing required sections for NIST SP 800-53: access control",
               "NIST SP 800-53 requires clear section headers or structured format" >>

Buckets == {"success", "warning", "error"}

\* the status line that reports file `name` in bucket b
ReportLine(name, b) ==
  IF b = "success" THEN [message |-> name \o " validated successfully", error |-> FALSE]
  ELSE IF b = "warning" THEN [message |-> name \o " validated with warnings", error |-> FALSE]
  ELSE [message |-> name \o " failed validation", error |-> TRUE]

IsReportLine(line) ==
  \E path \in Paths, b \in Buckets : line = ReportLine(Disk[path].name, b)

\* the lines of the status area that report a result
ReportLines(lines) == SelectSeq(lines, IsReportLine)

\* the condition under which record f belongs to bucket b
InBucket(f, b) ==
  IF b = "success" THEN f.valid /\ f.issues = <<>>
  ELSE IF b = "warning" THEN f.valid /\ f.issues # <<>>
  ELSE ~f.valid

(***************************************************************************)
(* C7 - result classification: after a run the status area reports every   *)
(* record in exactly one bucket: success iff valid and no issues, warning  *)
(* iff valid and at least one issue, error iff not valid.                  *)
(***************************************************************************)
ResultClassification ==
  RunReported =>
    /\ Len(ReportLines(status_tail)) = Len(loaded_files)
    /\ \A i \in 1..Len(loaded_files) : \A b \in Buckets :
         (ReportLines(status_tail)[i] = ReportLine(Disk[loaded_files[i].path].name, b))
           <=> InBucket(loaded_files[i], b)

\* a run reported one record as error and another, valid with an issue, as
\* warning
ResultClassificationWitness ==
  /\ RunReported
  /\ \E i, j \in 1..Len(loaded_files) :
       /\ ~loaded_files[i].valid
       /\ ReportLines(status_tail)[i] = ReportLine(Disk[loaded_files[i].path].name, "error")
       /\ loaded_files[j].valid /\ loaded_files[j].issues # <<>>
       /\ ReportLines(status_tail)[j] = ReportLine(Disk[loaded_files[j].path].name, "warning")

(***************************************************************************)
(* C8 - only selected sections are checked: for a file that meets the      *)
(* length minimum, a section is collected as missing exactly when its      *)
(* checkbox is checked and its keyword is not a substring of the           *)
(* lowercased text; an unchecked section is never reported and never       *)
(* makes the record invalid.                                               *)
(***************************************************************************)
OnlySelectedSectionsChecked ==
  [][RunStep =>
       \A i \in 1..Len(loaded_files) :
         (Reads(i) /\ Registered /\ LengthOk(i)) =>
           LET path == loaded_files[i].path
               sections == Range(validation_standards[current_standard].sections)
               absent(s) == ~SectionIn[path][s]
           IN  /\ \A s \in sections :
                    (s \in Range(MissingSections(path))) <=> (Selected(s) /\ absent(s))
               /\ loaded_files'[i].valid =
                    (loaded_files[i].valid /\ \A s \in sections : Selected(s) => ~absent(s))
               /\ (\A s \in sections : Selected(s) => ~absent(s)) =>
                    \A k \in 1..Len(TextAppended(i)) :
                      TextAppended(i)[k] = StructureIssue(current_standard)]_vars

\* custom.text, which lacks "access control", was validated against Custom
\* with the "access control" checkbox unchecked
OnlySelectedWitness ==
  /\ RunReported
  /\ current_standard = "Custom"
  /\ ~Selected("access control")
  /\ status_tail[1] = log_status("Starting validation using Custom standard...", FALSE)
  /\ \E i \in 1..Len(loaded_files) :
       /\ loaded_files[i].path = "/p/custom.text"
       /\ loaded_files[i].valid
       /\ loaded_files[i].issues = <<>>

(***************************************************************************)
(* C9 - selection reset: right after on_standard_changed(s) for a          *)
(* registered standard s, section_checkboxes has exactly one entry per     *)
(* section of s, no entry of another standard, and every entry is checked. *)
(***************************************************************************)
SelectionReset ==
  [][\A s \in StandardNames :
       on_standard_changed(s) =>
         /\ Len(section_checkboxes') = Len(validation_standards[s].sections)
         /\ {section_checkboxes'[j].section : j \in 1..Len(section_checkboxes')}
              = Range(validation_standards[s].sections)
         /\ \A j \in 1..Len(section_checkboxes') : section_checkboxes'[j].checked]_vars

\* nist.txt was validated against Custom with "access control" unchecked,
\* then the standard was changed to NIST SP 800-53, which shares the section
SelectionResetWitness ==
  /\ current_standard = "NIST SP 800-53"
  /\ status_tail = <<log_status("Changed validation standard to: NIST SP 800-53", FALSE)>>
  /\ Selected("access control")
  /\ \E i \in 1..Len(loaded_files) :
       /\ loaded_files[i].path = "/p/nist.txt"
       /\ loaded_files[i].issues =
            <<"Missing required sections for Custom: password, data protection, compliance">>

IsValidatingLine(line) ==
  \E path \in Paths :
    line = [message |-> "Validating " \o Disk[path].name \o "...", error |-> FALSE]

(***************************************************************************)
(* C10 - batch isolation and order: records are only ever added at the end *)
(* of loaded_files, and a run goes through them in that order;             *)
(* whether a record ends invalid depends only on its own checks, and every *)
(* record, also one after a record that failed or raised, is validated and *)
(* reported.                                                               *)
(***************************************************************************)
BatchIsolation ==
  [][/\ loaded_files' # <<>> =>
          /\ Len(loaded_files') >= Len(loaded_files)
          /\ \A i \in 1..Len(loaded_files) :
               loaded_files'[i].path = loaded_files[i].path
     /\ RunStep =>
       /\ Len(loaded_files') = Len(loaded_files)
       /\ \A i \in 1..Len(loaded_files) :
            /\ loaded_files'[i].path = loaded_files[i].path
            /\ loaded_files'[i].valid = (loaded_files[i].valid /\ ~RunFails(i))
            /\ KeepsIssues(i)
            /\ RunFails(i) => Len(Appended(i)) > 0
       /\ SelectSeq(status_tail', IsValidatingLine) =
            [i \in 1..Len(loaded_files) |->
               [message |-> "Validating " \o Disk[loaded_files[i].path].name \o "...",
                error |-> FALSE]]
       /\ Len(ReportLines(status_tail')) = Len(loaded_files)
       /\ \A i \in 1..Len(loaded_files) :
            \E b \in Buckets :
              ReportLines(status_tail')[i] = ReportLine(Disk[loaded_files[i].path].name, b)]_vars

\* report.docx could not be decoded; tiny.pdf, the next file of the batch,
\* was validated and reported
BatchIsolationWitness ==
  /\ RunReported
  /\ Len(loaded_files) = 2
  /\ loaded_files[1].path = "/p/report.docx"
  /\ ~loaded_files[1].valid
  /\ loaded_files[1].issues =
       <<"Word document is suspiciously small", ErrorIssue(DecodeError)>>
  /\ loaded_files[2].path = "/p/tiny.pdf"
  /\ loaded_files[2].valid
  /\ loaded_files[2].issues = <<"PDF file is suspiciously small">>
  /\ ReportLines(status_tail) =
       <<ReportLine("report.docx", "error"), ReportLine("tiny.pdf", "warning")>>

(***************************************************************************)
(* C11 - an unrecognized standard name aborts the run before any document  *)
(* is processed: when validate_policies runs while the active standard is  *)
(* not a key of the registry, no record's valid flag or issues list is     *)
(* changed.                                                                *)
(***************************************************************************)
UnknownStandardAbortsRun ==
  [][(RunStep /\ ~Registered) =>
       \A i \in 1..Len(loaded_files) :
         /\ loaded_files'[i].valid = loaded_files[i].valid
         /\ loaded_files'[i].issues = loaded_files[i].issues]_vars

(***************************************************************************)
(* C12 - selecting a name that is not registered fails immediately and is  *)
(* never silently defaulted: on_standard_changed with an unknown name      *)
(* writes an error line and does not leave that name as the active         *)
(* standard with an empty section selection.                               *)
(***************************************************************************)
UnknownStandardRejected ==
  [][\A s \in StandardChoices \ StandardNames :
       on_standard_changed(s) =>
         /\ ~(current_standard' = s /\ section_checkboxes' = <<>>)
         /\ \E k \in 1..Len(status_tail') : status_tail'[k].error]_vars

\* the issues process_files records for an extension that does not match the
\* detected content
MismatchTexts ==
  {MismatchIssue(Disk[path].extension, kind) :
     path \in Paths, kind \in {"PDF", "DOCX", "DOC", "text"}}

\* record f carries one or more issues, all of them extension mismatches
OnlyMismatch(f) ==
  /\ f.issues # <<>>
  /\ \A k \in 1..Len(f.issues) : f.issues[k] \in MismatchTexts

(***************************************************************************)
(* C14 - pre-existing issues are advisory: a record whose only issues are  *)
(* extension mismatches recorded at ingestion is valid, and when such a    *)
(* record passes the length and section checks of a run it ends the run    *)
(* valid and is reported with warnings, not as failed.                     *)
(***************************************************************************)
MismatchIsAdvisory ==
  [][/\ \A i \in 1..Len(loaded_files') :
          OnlyMismatch(loaded_files'[i]) => loaded_files'[i].valid
     /\ RunStep =>
          \A i \in 1..Len(loaded_files) :
            ( /\ OnlyMismatch(loaded_files[i])
              /\ Reads(i) /\ Registered /\ LengthOk(i)
              /\ ExpectedMissing(i) = <<>> ) =>
              /\ loaded_files'[i].valid
              /\ KeepsIssues(i)
              /\ ReportLines(status_tail')[i] =
                   ReportLine(Disk[loaded_files[i].path].name, "warning")]_vars

\* notes.md, ingested as text with a mismatching extension, was validated
\* against Custom with every section selected
MismatchIsAdvisoryWitness ==
  /\ RunReported
  /\ current_standard = "Custom"
  /\ \E i \in 1..Len(loaded_files) :
       /\ loaded_files[i].path = "/p/notes.md"
       /\ loaded_files[i].valid
       /\ loaded_files[i].issues = <<"Extension .md doesn't match text content">>
       /\ ReportLines(status_tail)[i] = ReportLine("notes.md", "warning")

\* the issues _validate_text_policy appends to a record
TextIssues(f) == _validate_text_policy([f EXCEPT !.issues = <<>>]).issues

(***************************************************************************)
(* C15 - per-format dispatch: for a pdf, doc or docx record below the size *)
(* floor of 1000 bytes exactly one "suspiciously small" issue is appended, *)
(* before every issue of the text checks, and it does not make the record  *)
(* invalid; for every type the issues that follow and the valid flag are   *)
(* those of the plain-text algorithm, and a txt record never gets a        *)
(* size-floor issue.                                                       *)
(***************************************************************************)
PerFormatDispatch ==
  [][RunStep =>
       \A i \in 1..Len(loaded_files) :
         LET f == loaded_files[i]
             small == IF f.type = "pdf" THEN "PDF file is suspiciously small"
                      ELSE "Word document is suspiciously small"
             floor == IF f.type \in {"pdf", "doc", "docx"} /\ f.size < 1000
                      THEN <<small>> ELSE <<>>
         IN  /\ KeepsIssues(i)
             /\ Appended(i) = floor \o TextIssues(f)
             /\ loaded_files'[i].valid = _validate_text_policy(f).valid
             /\ f.type = "txt" =>
                  \A k \in 1..Len(Appended(i)) :
                    Appended(i)[k] \notin {"PDF file is suspiciously small",
                                           "Word document is suspiciously small"}]_vars

\* tiny.pdf (900 bytes) was validated against Custom: the size-floor issue is
\* its only issue and the record is valid
PerFormatDispatchWitness ==
  /\ RunReported
  /\ current_standard = "Custom"
  /\ \E i \in 1..Len(loaded_files) :
       /\ loaded_files[i].type = "pdf"
       /\ loaded_files[i].size < 1000
       /\ loaded_files[i].valid
       /\ loaded_files[i].issues = <<"PDF file is suspiciously small">>

(***************************************************************************)
(* C16 - extraction failure: when the text of a file cannot be read, the   *)
(* run leaves the record invalid with exactly one issue of the text        *)
(* validation, the one describing the failure; no length, missing-sections *)
(* or structure issue is appended, and the records after it are still      *)
(* validated and reported.                                                 *)
(***************************************************************************)
ExtractionFailure ==
  [][RunStep =>
       \A i \in 1..Len(loaded_files) :
         ~Reads(i) =>
           /\ ~loaded_files'[i].valid
           /\ KeepsIssues(i)
           /\ TextAppended(i) = <<ErrorIssue(Disk[loaded_files[i].path].read.error)>>
           /\ Len(ReportLines(status_tail')) = Len(loaded_files)
           /\ \A j \in (i + 1)..Len(loaded_files) :
                /\ loaded_files'[j].valid = (loaded_files[j].valid /\ ~RunFails(j))
                /\ \E b \in Buckets :
                     ReportLines(status_tail')[j] =
                       ReportLine(Disk[loaded_files[j].path].name, b)]_vars

\* report.docx could not be decoded: the error issue follows the size-floor
\* issue, and tiny.pdf after it was validated
ExtractionFailureWitness ==
  /\ RunReported
  /\ \E i \in 1..Len(loaded_files) :
       /\ ~Reads(i)
       /\ ~loaded_files[i].valid
       /\ loaded_files[i].issues[Len(loaded_files[i].issues)] =
            "Error validating file: 'utf-8' codec can't decode byte 0xe9 in position 3: invalid continuation byte"
       /\ i < Len(loaded_files)
       /\ loaded_files[i + 1].valid
       /\ \E k \in 1..Len(status_tail) :
            status_tail[k] = ReportLine(Disk[loaded_files[i + 1].path].name, "warning")

(***************************************************************************)
(* C17 - the standard registry is immutable after start-up: in every       *)
(* reachable state the registry is the one the constructor built, and      *)
(* every registered standard has at least one section and a min_length of  *)
(* at least 0.                                                             *)
(***************************************************************************)
RegistryImmutable ==
  /\ validation_standards = StandardsAtStartup
  /\ \A n \in DOMAIN validation_standards :
       /\ Len(validation_standards[n].sections) >= 1
       /\ validation_standards[n].min_length >= 0

\* files were ingested, an unregistered and then a registered standard were
\* selected, a section was toggled and a run was made
RegistryImmutableWitness ==
  /\ RunReported
  /\ current_standard = "ISO 27001"
  /\ ~Selected("access control")
  /\ \E i \in 1..Len(loaded_files) :
       "Error validating file: 'PCI DSS'" \in Range(loaded_files[i].issues)
  /\ DOMAIN validation_standards = {"NIST SP 800-53", "ISO 27001", "SOC 2", "Custom"}

(***************************************************************************)
(* C18 - clean pass: a text record without any issue whose text meets the  *)
(* minimum length and contains every selected section keyword, validated   *)
(* against a standard that does not require structure, ends the run valid  *)
(* with no issue and is reported as validated successfully.                *)
(***************************************************************************)
CleanPass ==
  [][RunStep =>
       \A i \in 1..Len(loaded_files) :
         ( /\ loaded_files[i].type = "txt"
           /\ loaded_files[i].valid /\ loaded_files[i].issues = <<>>
           /\ Reads(i) /\ Registered /\ LengthOk(i)
           /\ ExpectedMissing(i) = <<>>
           /\ ~validation_standards[current_standard].required_structure ) =>
           /\ loaded_files'[i].valid
           /\ loaded_files'[i].issues = <<>>
           /\ ReportLines(status_tail')[i] =
                ReportLine(Disk[loaded_files[i].path].name, "success")]_vars

\* custom.text, which has no structure marker, was validated against Custom
\* with the one section it lacks unselected
CleanPassWitness ==
  /\ RunReported
  /\ Registered
  /\ ~validation_standards[current_standard].required_structure
  /\ \E i \in 1..Len(loaded_files) :
       /\ loaded_files[i].type = "txt"
       /\ ~Structured[loaded_files[i].path]
       /\ loaded_files[i].valid
       /\ loaded_files[i].issues = <<>>
       /\ ReportLines(status_tail)[i] =
            ReportLine(Disk[loaded_files[i].path].name, "success")

\* the text of each path with every letter a capital
Capitals == [path \in Paths |->
               [k \in 1..Len(Disk[path].read.text) |-> UpperChar(Disk[path].read.text[k])]]

\* whether the validation's search finds each section keyword in the text
\* of each path and in that text written in capitals
FoundInText ==
  [path \in Paths |->
     [section \in AllSections |->
        IsSubstring(Chars(section), lower(Disk[path].read.text))]]
FoundInCapitals ==
  [path \in Paths |->
     [section \in AllSections |-> IsSubstring(Chars(section), lower(Capitals[path]))]]

\* the selected sections the i-th record's text written in capitals lacks
MissingInCapitals(i) ==
  SelectSeq(validation_standards[current_standard].sections,
            LAMBDA s : Selected(s) /\ ~FoundInCapitals[loaded_files[i].path][s])

(***************************************************************************)
(* C19 - case-insensitive matching: a document and the same document       *)
(* written in capitals contain the same section keywords, and the          *)
(* missing-sections result of a run is the one of the document written in  *)
(* capitals: a keyword is reported missing only if it is absent whatever   *)
(* the letter case.                                                        *)
(***************************************************************************)
CaseInsensitiveMatching ==
  [][/\ FoundInText = FoundInCapitals
     /\ RunStep =>
          \A i \in 1..Len(loaded_files) :
            (Reads(i) /\ Registered /\ LengthOk(i)) =>
              IF MissingInCapitals(i) = <<>>
              THEN \A k \in 1..Len(TextAppended(i)) :
                     TextAppended(i)[k] = StructureIssue(current_standard)
              ELSE /\ Len(TextAppended(i)) >= 1
                   /\ TextAppended(i)[1] =
                        MissingIssue(MissingInCapitals(i), current_standard)]_vars

\* custom.text spells "PASSWORD" and "COMPLIANCE" in capitals; validated
\* against Custom with every section selected only "access control" is missing
CaseInsensitiveWitness ==
  /\ RunReported
  /\ current_standard = "Custom"
  /\ \A j \in 1..Len(section_checkboxes) : section_checkboxes[j].checked
  /\ \E i \in 1..Len(loaded_files) :
       /\ loaded_files[i].path = "/p/custom.text"
       /\ IsSubstring(<<"P", "A", "S", "S", "W", "O", "R", "D">>,
                      Disk["/p/custom.text"].read.text)
       /\ loaded_files[i].issues =
            <<"Missing required sections for Custom: access control">>

(***************************************************************************)
(* C21 - clear_all discards every file record and disables validation and  *)
(* leaves the active standard and the section selection as they are; a    *)
(* validate_policies call on the empty list validates nothing and reports  *)
(* that there are no files.                                                *)
(***************************************************************************)
ClearAllForgets ==
  [][/\ clear_all =>
          /\ loaded_files' = <<>>
          /\ ~validate_enabled'
          /\ current_standard' = current_standard
          /\ section_checkboxes' = section_checkboxes
     /\ (loaded_files = <<>> /\ validate_policies) =>
          /\ loaded_files' = <<>>
          /\ status_tail' = <<[message |-> "No files to validate.", error |-> TRUE]>>
          /\ ~validate_enabled' = ~validate_enabled]_vars

\* files were loaded under NIST SP 800-53 with "access control" unselected
\* and cleared, and validate_policies was called
ClearAllForgetsWitness ==
  /\ loaded_files = <<>>
  /\ ~validate_enabled
  /\ current_standard = "NIST SP 800-53"
  /\ ~Selected("access control")
  /\ status_tail = <<[message |-> "No files to validate.", error |-> TRUE]>>

(***************************************************************************)
(* C27 - changing the standard maintains the files and their validation    *)
(* state: on_standard_changed changes only the active standard and the     *)
(* section selection (and logs the change); the list of loaded files and   *)
(* the valid flag and issues of every record stay as they are.             *)
(***************************************************************************)
StandardChangeKeepsFiles ==
  [][\A standard \in StandardChoices :
       on_standard_changed(standard) =>
         /\ Len(loaded_files') = Len(loaded_files)
         /\ \A i \in 1..Len(loaded_files) :
              /\ loaded_files'[i].path = loaded_files[i].path
              /\ loaded_files'[i].valid = loaded_files[i].valid
              /\ loaded_files'[i].issues = loaded_files[i].issues
         /\ validate_enabled' = validate_enabled
         /\ validation_standards' = validation_standards]_vars

\* custom.text failed under NIST SP 800-53 and the standard was changed to
\* SOC 2: the record is still invalid with its length issue
StandardChangeKeepsFilesWitness ==
  /\ current_standard = "SOC 2"
  /\ status_tail = <<log_status("Changed validation standard to: SOC 2", FALSE)>>
  /\ \E i \in 1..Len(loaded_files) :
       /\ ~loaded_files[i].valid
       /\ loaded_files[i].issues =
            <<"Content length (90 chars) is below minimum requirement (1000 chars) for NIST SP 800-53">>

(***************************************************************************)
(* C29 - between ingestion and clear_all a record only degrades: no step   *)
(* that keeps the list of files changes a valid flag from false to true or *)
(* removes or reorders an entry of an issues list; a run only appends.     *)
(***************************************************************************)
RecordOnlyDegrades ==
  [][loaded_files' # <<>> =>
       /\ Len(loaded_files') >= Len(loaded_files)
       /\ \A i \in 1..Len(loaded_files) :
            /\ ~loaded_files[i].valid => ~loaded_files'[i].valid
            /\ KeepsIssues(i)]_vars

\* custom.text failed under Custom for lacking "access control"; with that
\* section unselected a second run passed its checks and appended nothing,
\* and the record is still invalid
RecordOnlyDegradesWitness ==
  /\ RunReported
  /\ current_standard = "Custom"
  /\ ~Selected("access control")
  /\ \E i \in 1..Len(loaded_files) :
       /\ loaded_files[i].path = "/p/custom.text"
       /\ ~loaded_files[i].valid
       /\ loaded_files[i].issues =
            <<"Missing required sections for Custom: access control">>
       /\ ReportLines(status_tail)[i] = ReportLine("custom.text", "error")

(***************************************************************************)
(* Vocabulary of the properties of the validator.                          *)
(***************************************************************************)
\* the earlier results are where and what they were
EarlierResultsKept ==
  /\ Len(get_results') >= Len(get_results)
  /\ \A i \in 1..Len(get_results) : get_results'[i] = get_results[i]

\* exactly one result was added, at the end, with these three entries
OneResultAdded(section, status, message) ==
  /\ Len(get_results') = Len(get_results) + 1
  /\ EarlierResultsKept
  /\ get_results'[Len(get_results')].section = section
  /\ get_results'[Len(get_results')].status = status
  /\ get_results'[Len(get_results')].message = message

\* the document has a text of at least one character
HasText ==
  /\ "text" \in DOMAIN document_content
  /\ Len(document_content.text) > 0

\* the configured minimum length, 0 when none is configured
ConfiguredMinLength ==
  IF "min_length" \in DOMAIN validation_options
    THEN validation_options.min_length ELSE 0

(***************************************************************************)
(* C22 - result records are append-only and in emission order: every       *)
(* add_result call adds exactly one record at the end of what get_results  *)
(* returns, carrying the section, status and message of the call, and no   *)
(* step of the validator changes or removes an earlier record.             *)
(***************************************************************************)
ResultsAppendOnly ==
  [][/\ \A call \in ResultCalls :
          add_result(call.section, call.status, call.message, call.details) =>
            OneResultAdded(call.section, call.status, call.message)
     /\ EarlierResultsKept]_vars

\* a failure recorded at time 0 followed by a pass recorded at time 1
ResultsAppendOnlyWitness ==
  /\ Len(get_results) = 2
  /\ get_results[1].section = "access_control"
  /\ get_results[1].status = "fail"
  /\ get_results[1].timestamp = isoformat(0)
  /\ get_results[2].section = "general"
  /\ get_results[2].status = "pass"
  /\ get_results[2].timestamp = isoformat(1)

CallbackStep(t) == \E raises \in BOOLEAN : callback(t, raises)

StartStep == \E succeeds \in BOOLEAN : start(succeeds)

StopStep == \E succeeds \in BOOLEAN, alive \in BOOLEAN : stop(succeeds, alive)

\* the distance between two times
Apart(time, other) == IF time >= other THEN time - other ELSE other - time

\* thread t is in on_modified for file_path at pc
InModified(t, file_path, pc) ==
  /\ threads[t].handler = "on_modified"
  /\ threads[t].file_path = file_path
  /\ threads[t].pc = pc

\* the step in which thread t decides about its modification event: the
\* event is accepted when the thread goes on to the callback
Accepted(t) == Debounce(t) /\ threads'[t].pc = "callback"

Suppressed(t) == Debounce(t) /\ threads'[t].pc # "callback"

\* thread t is handed an event by its observer
EventStep(t) ==
  \/ \E event \in FileEvents, exists \in BOOLEAN :
       \/ on_modified(t, event, exists)
       \/ on_created(t, event, exists)
  \/ \E event \in FileEvents : on_deleted(t, event)
  \/ \E event \in MoveEvents, exists \in BOOLEAN : on_moved(t, event, exists)

(***************************************************************************)
(* C13 - debounce: under the default configuration, of the creation and    *)
(* modification events for one path that fall within one debounce window   *)
(* only one invokes the callback: when the callback is called for an event *)
(* of a path, the event of its previous call for that path, if any, is     *)
(* more than the debounce delay older.                                     *)
(***************************************************************************)
DebounceCoalescesBurst ==
  [][\A t \in Threads :
       (config = DefaultConfig /\ CallbackStep(t)) =>
         LET file_path == threads[t].file_path
         IN  \/ last_callback[file_path] = Absent
             \/ threads[t].current_time - last_callback[file_path]
                  > DEFAULT_DEBOUNCE_DELAY]_vars

(***************************************************************************)
(* C20 - FileWatcher lifecycle: start() on a running watcher and stop() on *)
(* a watcher that is not running call nothing on the observer and change   *)
(* nothing; observer.start() is called only while the flag is false, so at *)
(* most once per running period; the flag becomes true only by a start()   *)
(* whose observer.start() returned and becomes false only by stop(); and   *)
(* after stop() the flag is false, also when stopping the observer raised. *)
(***************************************************************************)
WatcherLifecycle ==
  [][/\ (StartStep /\ _started) =>
          /\ observer'.calls = <<>>
          /\ observer'.alive = observer.alive
          /\ _started'
     /\ (StopStep /\ ~_started) =>
          /\ observer'.calls = <<>>
          /\ observer'.alive = observer.alive
          /\ ~_started'
          /\ printed' = printed
     /\ (StartStep /\ observer'.calls = <<"start">>) => ~_started
     /\ (~_started /\ _started') =>
          /\ StartStep
          /\ observer' = [alive |-> TRUE, calls |-> <<"start">>]
     /\ (_started /\ ~_started') => StopStep
     /\ StopStep => (~_started' /\ ~is_watching')]_vars

\* the watcher was started and stop() was called; observer.stop() raised, so
\* the observer still runs, and the flag is false
WatcherLifecycleWitness ==
  /\ ~_started
  /\ observer = [alive |-> TRUE, calls |-> <<"stop">>]
  /\ printed = <<"Error stopping file watcher: observer failed">>

(***************************************************************************)
(* C23 - debounce is race-free for one path: of two modification events    *)
(* for one path that different threads handle at the same time within the  *)
(* debounce window at most one invokes the callback: a thread calls the    *)
(* callback for a modification only if no callback was made, and no other  *)
(* thread is about to make one, for an event of that path within the       *)
(* debounce delay of its own.                                              *)
(***************************************************************************)
DebounceRaceFree ==
  [][\A t \in Threads :
       (CallbackStep(t) /\ threads[t].handler = "on_modified") =>
         LET file_path == threads[t].file_path
             current_time == threads[t].current_time
         IN  /\ \/ last_callback[file_path] = Absent
                \/ Apart(current_time, last_callback[file_path])
                     > DEFAULT_DEBOUNCE_DELAY
             /\ \A u \in Threads \ {t} :
                  InModified(u, file_path, "callback") =>
                    Apart(current_time, threads[u].current_time)
                      > DEFAULT_DEBOUNCE_DELAY]_vars

\* both threads are in on_modified for /w/a.txt with events of time 0: one
\* has been accepted and is at the callback, the other waits for the lock
DebounceRaceFreeWitness ==
  /\ InModified("observer", "/w/a.txt", "callback")
  /\ InModified("observer2", "/w/a.txt", "debounce")
  /\ threads["observer"].current_time = 0
  /\ threads["observer2"].current_time = 0
  /\ _last_modified["/w/a.txt"] = 0

(***************************************************************************)
(* C24 - debounce entries are per path: deciding about a modification      *)
(* event of one path leaves the last-seen time of every other path and the *)
(* position of every other thread as they are, and whether the event is    *)
(* accepted depends on the entry of its own path only.                     *)
(***************************************************************************)
DebouncePerPath ==
  [][\A t \in Threads :
       Debounce(t) =>
         LET file_path == threads[t].file_path
         IN  /\ \A other \in FilePaths \ {file_path} :
                  _last_modified'[other] = _last_modified[other]
             /\ \A u \in Threads \ {t} : threads'[u] = threads[u]
             /\ last_callback' = last_callback
             /\ Accepted(t) <=>
                  \/ _last_modified[file_path] = Absent
                  \/ threads[t].current_time - _last_modified[file_path]
                       > DEFAULT_DEBOUNCE_DELAY]_vars

\* /w/a.txt was accepted at time 0; within its window the event of
\* /w/b.docx at time 1 was accepted by the other thread
DebouncePerPathWitness ==
  /\ _last_modified["/w/a.txt"] = 0
  /\ _last_modified["/w/b.docx"] = 1
  /\ InModified("observer", "/w/a.txt", "callback")
  /\ InModified("observer2", "/w/b.docx", "callback")
  /\ threads["observer2"].current_time = 1

(***************************************************************************)
(* C26 - a failing callback never breaks the watcher: when the callback    *)
(* raises in any of the four handlers, the handler prints the error and    *)
(* returns, the observer and the started flag are as before, the debounce  *)
(* table is kept, and the thread is ready for the next event exactly as    *)
(* after a callback that returned.                                         *)
(***************************************************************************)
FailingCallbackContained ==
  [][\A t \in Threads :
       callback(t, TRUE) =>
         /\ printed' = <<CallbackErrorLine(threads[t].handler)>>
         /\ threads' = [threads EXCEPT ![t] = Idle]
         /\ observer' = observer
         /\ _started' = _started
         /\ _last_modified' = _last_modified
         /\ threads[t].handler = "on_modified" =>
              _last_modified'[threads[t].file_path] = threads[t].current_time
         /\ CanEnter(t)' = observer.alive]_vars

\* the callback raised for the modification of /w/a.txt at time 0; the entry
\* of the path is kept and the modification of /w/b.docx at time 1 has been
\* accepted and is at its callback
FailingCallbackWitness ==
  /\ printed = <<"Error in file watcher callback: callback failed">>
  /\ _last_modified["/w/a.txt"] = 0
  /\ last_callback["/w/a.txt"] = 0
  /\ InModified("observer", "/w/b.docx", "callback")
  /\ threads["observer"].current_time = 1
  /\ observer.alive

(***************************************************************************)
(* C28 - spacing of modification callbacks: a modification event is        *)
(* accepted only if its path has no last-seen time or the time of the      *)
(* event is more than debounce_delay after it, and then becomes the        *)
(* last-seen time; an event at most debounce_delay after it, exactly       *)
(* debounce_delay included, is suppressed and leaves the table as it is.   *)
(* Where deletions and moves are not watched the table changes in no other *)
(* way, so the window is measured from the last accepted event.            *)
(***************************************************************************)
ModificationSpacing ==
  [][/\ \A t \in Threads :
          LET file_path == threads[t].file_path
              current_time == threads[t].current_time
          IN  /\ Accepted(t) =>
                   /\ \/ _last_modified[file_path] = Absent
                      \/ current_time - _last_modified[file_path]
                           > DEFAULT_DEBOUNCE_DELAY
                   /\ _last_modified'[file_path] = current_time
              /\ Suppressed(t) =>
                   /\ _last_modified[file_path] # Absent
                   /\ current_time - _last_modified[file_path]
                        <= DEFAULT_DEBOUNCE_DELAY
                   /\ _last_modified' = _last_modified
              /\ (CallbackStep(t) /\ threads[t].handler = "on_modified") =>
                   _last_modified[file_path] = current_time
     /\ (config = DefaultConfig /\ _last_modified' # _last_modified) =>
          \E t \in Threads : Accepted(t)]_vars

\* the modification of /w/a.txt at time 0 was accepted and called back; the
\* next accepted one is that of time 2, now at its callback
ModificationSpacingWitness ==
  /\ config = DefaultConfig
  /\ last_callback["/w/a.txt"] = 0
  /\ _last_modified["/w/a.txt"] = 2
  /\ InModified("observer", "/w/a.txt", "callback")
  /\ threads["observer"].current_time = 2

====
